---- MODULE Spec2Model ----
(***************************************************************************)
(* Flight price tracker: tracking-request lifecycle, price monitoring and  *)
(* API rate limiting, modelled from backend/src.                           *)
(*                                                                         *)
(* Units: prices are integer cents (Numeric(10,2)); thresholds are         *)
(* hundredths of a percent (Numeric(5,2)); dates and utcnow are whole days *)
(* (expires_at, "end of the departure day", is the start of the next day); *)
(* the limiter's clock is whole seconds, as int(time.time()).              *)
(***************************************************************************)
EXTENDS Integers, Sequences, FiniteSets, TLC

VARIABLES
    requests,          \* table flight_tracking_requests: id -> row
    next_id,           \* next fresh primary key (uuid4 never repeats)
    notification_log,  \* table notification_log, in insertion order
    price_history,     \* table price_history, in insertion order
    utcnow,            \* datetime.utcnow(), in days
    last,              \* history: the last service call, its inputs and result
    updated_at,        \* column updated_at of flight_tracking_requests: id -> day
    detect,            \* inputs and result of a call of _detect_price_change
    cache,             \* the Redis store: key -> value and expiry time
    clock,             \* int(time.time()), in seconds
    rl,                \* history: the last rate-limit check and its outcome
    accepted,          \* history: per cache key, the times of accepted requests
    response,          \* history: the last request dispatched and its response
    passed,            \* history: per endpoint, the requests handed to the app
    val,               \* arguments and result of a call of the validation service
    api,               \* history: the last API handler call and its response
    store,             \* the Redis store of CacheManager: key -> payload and expiry
    reply,             \* history: the last CacheManager call and what it returned
    creating,          \* create_tracking_request calls in flight
    cycles,            \* price-check cycles in flight
    inflight,          \* rate-limit checks in flight
    flight,            \* flight_service: its token, and history of its last call
    celery_task,       \* a Celery task wrapped by retry_task_on_error
    fixed,             \* fixed-window rate-limit checks in flight
    connected,         \* CacheManager._redis is set
    called,            \* history: the last call of a CacheManager method
    job,               \* a task of tasks/: its attempts, retries and result
    pyhash             \* the hash seed of the interpreter process

dbVars == <<requests, next_id, notification_log, price_history, utcnow, last,
           updated_at>>
rlVars == <<cache, clock, rl, accepted>>
mwVars == <<response, passed>>
taskVars == <<job, pyhash>>
svcVars == <<flight, celery_task, fixed, connected, called, job, pyhash>>
auxVars == <<val, api, store, reply, creating, cycles, inflight, flight, celery_task,
             fixed, connected, called, job, pyhash>>
vars == <<requests, next_id, notification_log, price_history, utcnow, last,
          updated_at, detect,
          cache, clock, rl, accepted, response, passed,
          val, api, store, reply, creating, cycles, inflight, flight, celery_task,
          fixed, connected, called, job, pyhash>>

-----------------------------------------------------------------------------
(* Bounds *)

MaxRequests == 2       \* rows ever inserted into flight_tracking_requests
MaxNow == 3            \* last day the clock reaches
MaxLog == 2            \* notification_log rows in the lifecycle specification
MaxHistory == 3        \* price_history rows in the monitoring specification
MaxClock == 5          \* last second the limiter's clock reaches
CheckLimit == 2        \* the limit the sliding-window check is called with
CheckWindow == 3       \* the window, in seconds, it is called with
MaxDispatch == 21      \* requests to the limited endpoints handed to the app
MaxCodeLen == 4        \* longest string passed to validate_iata_code
MaxPage == 3           \* last page asked of get_price_history
MaxLimit == 2          \* largest page size asked of get_price_history
MaxAccepted == 3       \* accepted requests of one client in the race
MaxChecked == 2        \* price_history rows before the last cycle with timestamps
MaxBulk == 2           \* entries of a list handed to send_bulk_notifications

-----------------------------------------------------------------------------
(* Data *)

NULL == 0              \* SQL NULL / Python None of a nullable date or price

Ids == 1..MaxRequests
Origins == {"JFK"}
Destinations == {"LAX"}
ChatIds == {1001}
DepartureDates == {1, 2}
ReturnDates == {NULL, 3}
Thresholds == {100, 500}
Prices == {9500, 10000, 10499, 10500}

OptBool == {<<>>, <<TRUE>>, <<FALSE>>}

Hours24 == 1           \* timedelta(hours=24), in days

Abs(x) == IF x < 0 THEN -x ELSE x

\* FlightTrackingRequestCreate: the validated creation payloads.
RequestData ==
    [origin_iata : Origins, destination_iata : Destinations,
     departure_date : DepartureDates, return_date : ReturnDates,
     telegram_chat_id : ChatIds, price_threshold : Thresholds]

\* The validators of FlightTrackingRequestCreate, at date.today() = today.
ValidCreate(rd, today) ==
    /\ rd.departure_date > today
    /\ (rd.return_date # NULL => rd.return_date > rd.departure_date)

\* FlightTrackingRequestUpdate: both fields optional.
UpdateData == [price_threshold : Thresholds \cup {NULL}, is_active : OptBool]

NoData ==
    [origin_iata |-> "", destination_iata |-> "", departure_date |-> NULL,
     return_date |-> NULL, telegram_chat_id |-> NULL, price_threshold |-> NULL]

NoObs == [i \in {} |-> [price |-> NULL, delivered |-> FALSE]]
NoRows == [i \in {} |-> NULL]

\* The ids whose row an operation inserted, changed or deleted.
Changed(before, after) ==
    {id \in DOMAIN before \cup DOMAIN after :
        \/ id \notin DOMAIN before
        \/ id \notin DOMAIN after
        \/ before[id] # after[id]}

\* History of one call: the operation, its payload and result, a count (the
\* requests expired or loaded, the child rows a delete took along), the rows it
\* changed, the number of notification_log rows it wrote, whether the call
\* before it was the same operation, and (for a price check) the rows as
\* they were loaded and the prices observed.
Last(op, data, result, count, changed, written, pre, obs) ==
    [op |-> op, data |-> data, result |-> result, count |-> count,
     changed |-> changed, written |-> written, repeat |-> (last.op = op),
     pre |-> pre, obs |-> obs]

SameKey(r, rd) ==
    /\ r.origin_iata = rd.origin_iata
    /\ r.destination_iata = rd.destination_iata
    /\ r.departure_date = rd.departure_date
    /\ r.return_date = rd.return_date
    /\ r.telegram_chat_id = rd.telegram_chat_id

-----------------------------------------------------------------------------
(* Tracking Request Service *)

\* TrackingService._check_duplicate_request: the rows the query selects.
check_duplicate_request(reqs, rd) ==
    {id \in DOMAIN reqs :
        /\ reqs[id].origin_iata = rd.origin_iata
        /\ reqs[id].destination_iata = rd.destination_iata
        /\ reqs[id].departure_date = rd.departure_date
        /\ \/ (reqs[id].return_date = rd.return_date /\ rd.return_date # NULL)
           \/ (reqs[id].return_date = NULL /\ rd.return_date = NULL)
        /\ reqs[id].telegram_chat_id = rd.telegram_chat_id
        /\ reqs[id].is_active = TRUE}

\* The unique index uq_tracking_request over (origin, destination,
\* departure_date, return_date, telegram_chat_id), on every row whatever its
\* is_active; as a PostgreSQL unique index it treats NULLs as distinct, so a
\* row with a NULL return_date never conflicts.
uq_tracking_request(reqs, rd) ==
    \E id \in DOMAIN reqs :
        /\ rd.return_date # NULL
        /\ reqs[id].origin_iata = rd.origin_iata
        /\ reqs[id].destination_iata = rd.destination_iata
        /\ reqs[id].departure_date = rd.departure_date
        /\ reqs[id].return_date = rd.return_date
        /\ reqs[id].telegram_chat_id = rd.telegram_chat_id

\* expires_at: the end of the departure day.
expires_at_of(rd) == rd.departure_date + 1

\* FlightTrackingRequestCreate.currency: Field("USD"), the value of a payload
\* that leaves the currency out.
currency_of(rd) == IF "currency" \in DOMAIN rd THEN rd.currency ELSE "USD"

NewRow(rd) ==
    [origin_iata |-> rd.origin_iata, destination_iata |-> rd.destination_iata,
     departure_date |-> rd.departure_date, return_date |-> rd.return_date,
     telegram_chat_id |-> rd.telegram_chat_id,
     baseline_price |-> NULL, current_price |-> NULL,
     price_threshold |-> rd.price_threshold, currency |-> currency_of(rd),
     is_active |-> TRUE, expires_at |-> expires_at_of(rd)]

\* The column updated_at after the rows ids were inserted or updated at now
\* (default=datetime.utcnow, onupdate=datetime.utcnow, and the assignments of
\* the services), on the rows that remain.
stamp(col, remaining, ids, now) ==
    [id \in remaining |-> IF id \in ids THEN now ELSE col[id]]

\* Outcome of create_tracking_request: the duplicate check (one row found, or
\* MultipleResultsFound from scalar_one_or_none) raises TrackingServiceError;
\* an IntegrityError from the unique index at commit is re-raised as one too.
create_result(reqs, rd) ==
    IF check_duplicate_request(reqs, rd) # {} THEN "duplicate"
    ELSE IF uq_tracking_request(reqs, rd) THEN "failed"
    ELSE "created"

\* TrackingService.create_tracking_request
CreateTrackingRequest(rd) ==
    /\ ValidCreate(rd, utcnow)
    /\ LET res == create_result(requests, rd) IN
       /\ res = "created" => next_id <= MaxRequests
       /\ requests' = IF res = "created"
                      THEN [id \in DOMAIN requests \cup {next_id} |->
                              IF id = next_id THEN NewRow(rd) ELSE requests[id]]
                      ELSE requests
       /\ next_id' = IF res = "created" THEN next_id + 1 ELSE next_id
       /\ updated_at' = stamp(updated_at, DOMAIN requests', DOMAIN requests' \ DOMAIN requests,
                             utcnow)
       /\ last' = Last("create", rd, res, 0, Changed(requests, requests'), 0,
                       NoRows, NoObs)
    /\ UNCHANGED <<notification_log, price_history, utcnow, detect, rlVars, mwVars, auxVars>>

\* The column values update_tracking_request writes.
update_values(r, ud) ==
    [r EXCEPT !.price_threshold =
                  IF ud.price_threshold # NULL THEN ud.price_threshold ELSE @,
              !.is_active = IF ud.is_active # <<>> THEN ud.is_active[1] ELSE @]

\* Mutant: the UPDATE is executed, and updated_at refreshed, for an empty
\* payload too.
supplied_always(ud) == TRUE

\* "if update_values:" - at least one field of the payload is not None.
supplied(ud) == ud.price_threshold # NULL \/ ud.is_active # <<>>

\* TrackingService.update_tracking_request
UpdateTrackingRequest(id, ud) ==
    /\ requests' = IF id \in DOMAIN requests
                   THEN [requests EXCEPT ![id] = update_values(@, ud)]
                   ELSE requests
    /\ updated_at' = stamp(updated_at, DOMAIN requests,
                          IF supplied(ud) THEN {id} \cap DOMAIN requests ELSE {}, utcnow)
    /\ last' = Last("update", [id |-> id, ud |-> ud],
                    IF id \in DOMAIN requests THEN "updated" ELSE "not_found",
                    0, Changed(requests, requests'), 0, NoRows, NoObs)
    /\ UNCHANGED <<next_id, notification_log, price_history, utcnow, detect, rlVars, mwVars, auxVars>>

\* Mutant: the foreign keys without ON DELETE CASCADE.
Cascade_none(rows, id) == rows

\* ON DELETE CASCADE of the child tables.
Cascade(rows, id) == SelectSeq(rows, LAMBDA row : row.tracking_request_id # id)

\* TrackingService.delete_tracking_request
DeleteTrackingRequest(id) ==
    /\ requests' = [i \in DOMAIN requests \ {id} |-> requests[i]]
    /\ updated_at' = stamp(updated_at, DOMAIN requests \ {id}, {}, utcnow)
    /\ notification_log' = Cascade(notification_log, id)
    /\ price_history' = Cascade(price_history, id)
    /\ last' = Last("delete", NoData,
                    IF id \in DOMAIN requests THEN "deleted" ELSE "not_found",
                    (Len(price_history) - Len(price_history'))
                        + (Len(notification_log) - Len(notification_log')),
                    Changed(requests, requests'), 0, NoRows, NoObs)
    /\ UNCHANGED <<next_id, utcnow, detect, rlVars, mwVars, auxVars>>

\* Mutant: a request updated exactly at the cutoff is deleted too.
older_or_equal(updated, cutoff) == updated <= cutoff

\* FlightTrackingRequestDB.updated_at < cutoff_date
older(updated, cutoff) == updated < cutoff

\* The rows the DELETE of cleanup_old_requests matches, with
\* cutoff_date = utcnow() - timedelta(days=days_old).
OldRequests(reqs, col, now, days_old) ==
    {id \in DOMAIN reqs :
        reqs[id].is_active = FALSE /\ older(col[id], now - days_old)}

\* The child rows left by ON DELETE CASCADE when the requests ids go.
CascadeAll(rows, ids) ==
    SelectSeq(rows, LAMBDA row : row.tracking_request_id \notin ids)

\* TrackingService.cleanup_old_requests; the result is result.rowcount.
CleanupOldRequests(days_old) ==
    LET old == OldRequests(requests, updated_at, utcnow, days_old) IN
    /\ requests' = [i \in DOMAIN requests \ old |-> requests[i]]
    /\ updated_at' = stamp(updated_at, DOMAIN requests \ old, {}, utcnow)
    /\ notification_log' = CascadeAll(notification_log, old)
    /\ price_history' = CascadeAll(price_history, old)
    /\ last' = Last("cleanup", [days_old |-> days_old], Cardinality(old), 0,
                    Changed(requests, requests'), 0, requests, NoObs)
    /\ UNCHANGED <<next_id, utcnow, detect, rlVars, mwVars, auxVars>>

-----------------------------------------------------------------------------
(* Price Monitoring Service: expiry sweep *)

LogRow(id, type, status, old_price, new_price) ==
    [tracking_request_id |-> id, notification_type |-> type, status |-> status,
     old_price |-> old_price, new_price |-> new_price]

\* Mutant: the UPDATE without its expires_at condition.
ExpiredIds_any_active(reqs, now) ==
    {id \in DOMAIN reqs : reqs[id].is_active = TRUE}

\* The rows the UPDATE of expire_old_requests matches.
ExpiredIds(reqs, now) ==
    {id \in DOMAIN reqs : reqs[id].is_active = TRUE /\ reqs[id].expires_at <= now}

\* The rows the SELECT of "recently expired" requests matches.
RecentlyExpired(reqs, now) ==
    {id \in DOMAIN reqs :
        /\ reqs[id].is_active = FALSE
        /\ reqs[id].expires_at <= now
        /\ reqs[id].expires_at > now - Hours24}

\* _send_tracking_expired_notification for each id, in key order: a delivered
\* message is logged as sent; a delivery that raises is only written to the
\* application log.
RECURSIVE send_tracking_expired(_, _, _)
send_tracking_expired(log, ids, delivered) ==
    IF ids = {} THEN log
    ELSE LET id == CHOOSE i \in ids : \A j \in ids : i <= j IN
         send_tracking_expired(
             IF id \in delivered
             THEN Append(log, LogRow(id, "tracking_stopped", "sent", NULL, NULL))
             ELSE log,
             ids \ {id}, delivered)

\* PriceMonitoringService.expire_old_requests
ExpireOldRequests(delivered) ==
    LET expired == ExpiredIds(requests, utcnow)
        after == [id \in DOMAIN requests |->
                    IF id \in expired THEN [requests[id] EXCEPT !.is_active = FALSE]
                    ELSE requests[id]]
        expired_count == Cardinality(expired)
        to_notify == IF expired_count > 0 THEN RecentlyExpired(after, utcnow) ELSE {}
    IN
    /\ delivered \subseteq to_notify
    /\ Len(notification_log) + Cardinality(delivered) <= MaxLog
    /\ requests' = after
    /\ updated_at' = stamp(updated_at, DOMAIN requests, expired, utcnow)
    /\ notification_log' = send_tracking_expired(notification_log, to_notify, delivered)
    /\ last' = Last("expire", NoData, "done", expired_count,
                    Changed(requests, requests'),
                    Len(notification_log') - Len(notification_log), NoRows, NoObs)
    /\ UNCHANGED <<next_id, price_history, utcnow, detect, rlVars, mwVars, auxVars>>

\* Time passes.
Tick ==
    /\ utcnow < MaxNow
    /\ utcnow' = utcnow + 1
    /\ last' = Last("tick", NoData, "done", 0, {}, 0, NoRows, NoObs)
    /\ UNCHANGED <<requests, next_id, notification_log, price_history, updated_at, detect,
                   rlVars, mwVars, auxVars>>

-----------------------------------------------------------------------------
(* Price Monitoring Service: price checks *)

\* Mutant: a strict comparison with the threshold.
detect_price_change_strict(old_price, new_price, threshold) ==
    IF old_price = new_price THEN FALSE
    ELSE Abs(new_price - old_price) * 100 * 100 > threshold * old_price

\* PriceMonitoringService._detect_price_change.  The code compares the
\* Decimal abs((new - old) / old * 100) with the threshold in percent; with
\* prices in cents and the threshold in hundredths of a percent that is the
\* comparison of the cross products (Decimal keeps 28 digits, more than a
\* quotient of two Numeric(10,2) values needs to be told from a Numeric(5,2)).
detect_price_change(old_price, new_price, threshold) ==
    IF old_price = new_price THEN FALSE
    ELSE Abs(new_price - old_price) * 100 * 100 >= threshold * old_price

\* NotificationStatus.SENT if result.get("success"), FAILED when the send raised.
status_of(delivered) == IF delivered THEN "sent" ELSE "failed"

\* Mutant: the tracking-started row is logged as sent whatever the delivery.
send_tracking_started_always_sent(log, id, delivered) ==
    Append(log, LogRow(id, "tracking_started", "sent", NULL, NULL))

\* PriceMonitoringService._send_tracking_started_notification
send_tracking_started(log, id, delivered) ==
    Append(log, LogRow(id, "tracking_started", status_of(delivered), NULL, NULL))

\* PriceMonitoringService._send_price_change_notification
send_price_change(log, id, old_price, new_price, delivered) ==
    Append(log, LogRow(id, "price_change", status_of(delivered), old_price, new_price))

\* The first observation: baseline and current price.
first_observation(r, new_price) ==
    [r EXCEPT !.baseline_price = new_price, !.current_price = new_price]

\* Mutant: the comparison is made with the baseline price.
prior_price_baseline(r) == r.baseline_price

\* old_price = request.current_price
prior_price(r) == r.current_price

\* Mutant: a significant change also moves the baseline.
notified_update_rebase(r, new_price) ==
    [r EXCEPT !.baseline_price = new_price, !.current_price = new_price]

\* The update made when the change is significant.
notified_update(r, new_price) == [r EXCEPT !.current_price = new_price]

\* Mutant: a change below the threshold is not stored.
silent_update_skipped(r, new_price) == r

\* The update made when the change is below the threshold.
silent_update(r, new_price) == [r EXCEPT !.current_price = new_price]

\* Mutant: the row is left to the column default.
recorded_currency_default(r) == "USD"

\* currency=request.currency of the PriceHistoryDB row.
recorded_currency(r) == r.currency

\* PriceMonitoringService.check_single_request on the tables db, for the
\* price get_current_price returned (NULL: no price found).
check_single_request(db, id, new_price, delivered) ==
    IF new_price = NULL THEN db
    ELSE
      LET r == db.requests[id]
          hist == Append(db.price_history,
                         [tracking_request_id |-> id, price |-> new_price,
                          currency |-> recorded_currency(r)])
          old_price == prior_price(r)
      IN
      IF r.baseline_price = NULL THEN
          [requests |-> [db.requests EXCEPT ![id] = first_observation(r, new_price)],
           notification_log |-> send_tracking_started(db.notification_log, id, delivered),
           price_history |-> hist]
      ELSE IF detect_price_change(old_price, new_price, r.price_threshold) THEN
          [requests |-> [db.requests EXCEPT ![id] = notified_update(r, new_price)],
           notification_log |->
               send_price_change(db.notification_log, id, old_price, new_price, delivered),
           price_history |-> hist]
      ELSE
          [requests |-> [db.requests EXCEPT ![id] = silent_update(r, new_price)],
           notification_log |-> db.notification_log,
           price_history |-> hist]

\* Mutant: every request of the cycle is written, with or without a price.
priced_or_not(ids, obs) == ids

\* The requests of a cycle for which get_current_price returned a price:
\* check_single_request assigns updated_at, or (first observation) the flush
\* of baseline_price and current_price fires onupdate.
priced(ids, obs) == {id \in ids : obs[id].price # NULL}

\* The query of check_all_active_requests.
ActiveRequests(reqs, now) ==
    {id \in DOMAIN reqs : reqs[id].is_active = TRUE /\ reqs[id].expires_at > now}

\* The loop of check_all_active_requests over the loaded requests.
RECURSIVE check_each(_, _, _)
check_each(db, ids, obs) ==
    IF ids = {} THEN db
    ELSE LET id == CHOOSE i \in ids : \A j \in ids : i <= j IN
         check_each(check_single_request(db, id, obs[id].price, obs[id].delivered),
                    ids \ {id}, obs)

\* What one cycle meets: per loaded request the price found (NULL: none) and
\* whether the delivery of its notification succeeds.
MonitorPrices == {10000, 10499, 10500}
Observation ==
    {o \in [price : MonitorPrices \cup {NULL}, delivered : BOOLEAN] :
        o.price = NULL => ~o.delivered}
Observations(ids) == [ids -> Observation]

\* PriceMonitoringService.check_all_active_requests, with obs the price the
\* flight service returns for each loaded request and whether the telegram
\* delivery of its notification succeeds.
CheckAllActiveRequests(obs) ==
    LET loaded == ActiveRequests(requests, utcnow)
        db == [requests |-> requests, notification_log |-> notification_log,
               price_history |-> price_history]
        after == check_each(db, loaded, obs)
    IN
    /\ loaded # {}
    /\ DOMAIN obs = loaded
    /\ Len(after.price_history) <= MaxHistory
    /\ requests' = after.requests
    /\ updated_at' = stamp(updated_at, DOMAIN requests, priced(loaded, obs), utcnow)
    /\ notification_log' = after.notification_log
    /\ price_history' = after.price_history
    /\ last' = Last("check_all", NoData, "done", Cardinality(loaded),
                    Changed(requests, requests'),
                    Len(notification_log') - Len(notification_log),
                    requests, obs)
    /\ UNCHANGED <<next_id, utcnow, detect, rlVars, mwVars, auxVars>>

-----------------------------------------------------------------------------
(* Cache and rate-limiting middleware *)

Clients == {"ip:10.0.0.1", "ip:10.0.0.2"}

Max(a, b) == IF a >= b THEN a ELSE b

RECURSIVE SeqMin(_)
SeqMin(q) ==
    IF Len(q) = 1 THEN q[1]
    ELSE LET m == SeqMin(Tail(q)) IN IF q[1] <= m THEN q[1] ELSE m

\* q[-n:] for n >= 1
LastN(q, n) == IF Len(q) <= n THEN q ELSE SubSeq(q, Len(q) - n + 1, Len(q))

\* str.startswith on paths, a path being the sequence of its "/" and names.
StartsWith(path, prefix) ==
    Len(prefix) <= Len(path) /\ SubSeq(path, 1, Len(prefix)) = prefix

\* CacheKeys.rate_limit
rate_limit_key(client_id, endpoint) == <<"rate_limit", endpoint, client_id>>

\* CacheManager.get on a key holding a rate-limit record: absent when the key
\* was never set or its TTL ran out (json.loads returns the dict json.dumps
\* was given: integers, a list and a dict survive the round trip unchanged).
cache_get(c, key, now) ==
    IF key \in DOMAIN c /\ c[key].expires > now
    THEN [found |-> TRUE, requests |-> c[key].requests, count |-> c[key].count]
    ELSE [found |-> FALSE, requests |-> <<>>, count |-> 0]

\* CacheManager.set with a ttl (redis SETEX).
cache_set(c, key, value, ttl, now) ==
    [k \in DOMAIN c \cup {key} |->
        IF k = key
        THEN [requests |-> value.requests, count |-> value.count, expires |-> now + ttl]
        ELSE c[k]]

\* Mutant: the limit is only reached one request later.
limit_reached_late(recent_requests, limit) == Len(recent_requests) > limit

\* len(recent_requests) >= limit
limit_reached(recent_requests, limit) == Len(recent_requests) >= limit

\* AdvancedRateLimitMiddleware._check_rate_limit at time now: the outcome
\* (RateLimitExceeded with its retry_after, or no exception) and the cache.
\* The store only ever holds the records this method writes, so the branch
\* for a plain counter is never taken.
check_rate_limit(c, client_id, endpoint, limit, window, now) ==
    LET cache_key == rate_limit_key(client_id, endpoint)
        window_start == now - window
        got == cache_get(c, cache_key, now)
        requests_data == IF got.found THEN got ELSE [requests |-> <<>>, count |-> 0]
        recent_requests ==
            SelectSeq(requests_data.requests, LAMBDA req_time : req_time > window_start)
    IN
    IF limit_reached(recent_requests, limit) THEN
        LET oldest_request ==
                IF recent_requests # <<>> THEN SeqMin(recent_requests) ELSE now
            retry_after == window - (now - oldest_request)
        IN [outcome |-> "exceeded", retry_after |-> Max(retry_after, 1), cache |-> c]
    ELSE
        LET appended == Append(recent_requests, now)
            updated_data == [requests |-> LastN(appended, limit),
                             count |-> Len(appended)]
        IN [outcome |-> "ok", retry_after |-> 0,
            cache |-> cache_set(c, cache_key, updated_data, window, now)]

\* The cache as a check finds it: answering, unreachable (get gives None and
\* set gives False) or holding what makes the check raise.
CacheStates == {"up", "down", "raises"}

EmptyCache == [k \in {} |-> [requests |-> <<>>, count |-> 0, expires |-> 0]]

\* Mutant: an internal failure of the check blocks the request.
internal_error_blocks(c) == [outcome |-> "exceeded", retry_after |-> 1, cache |-> c]

\* except Exception in _check_rate_limit: the error is logged and the
\* check returns.
internal_error_ignored(c) == [outcome |-> "ok", retry_after |-> 0, cache |-> c]

\* _check_rate_limit over the cache in one of its states.
check_rate_limit_over(c, cache_state, client_id, endpoint, limit, window, now) ==
    CASE cache_state = "up" ->
           check_rate_limit(c, client_id, endpoint, limit, window, now)
      [] cache_state = "down" ->
           [check_rate_limit(EmptyCache, client_id, endpoint, limit, window, now)
               EXCEPT !.cache = c]
      [] OTHER -> internal_error_ignored(c)

InitCache ==
    /\ cache = [k \in {} |-> [requests |-> <<>>, count |-> 0, expires |-> 0]]
    /\ clock = 0
    /\ rl = [client_id |-> "", outcome |-> "none", retry_after |-> 0, at |-> 0,
             cache_state |-> "up"]
    /\ accepted = [cl \in Clients |-> <<>>]

CheckEndpoint == <<"GET", <<"/", "api">>>>

\* One call of _check_rate_limit(client_id, endpoint, limit, window) over
\* the cache in one of its states.
CheckRateLimitOver(client_id, cache_state) ==
    LET r == check_rate_limit_over(cache, cache_state, client_id, CheckEndpoint,
                                   CheckLimit, CheckWindow, clock)
    IN
    /\ cache' = r.cache
    /\ rl' = [client_id |-> client_id, outcome |-> r.outcome,
              retry_after |-> r.retry_after, at |-> clock,
              cache_state |-> cache_state]
    /\ accepted' = IF r.outcome = "ok"
                   THEN [accepted EXCEPT ![client_id] = Append(@, clock)]
                   ELSE accepted
    /\ UNCHANGED <<clock, dbVars, detect, mwVars, auxVars>>

\* The same over a cache that answers.
CheckRateLimit(client_id) == CheckRateLimitOver(client_id, "up")

\* A second passes.
TickClock ==
    /\ clock < MaxClock
    /\ clock' = clock + 1
    /\ UNCHANGED <<cache, rl, accepted, dbVars, detect, mwVars, auxVars>>

NextRate ==
    \/ \E client_id \in Clients : CheckRateLimit(client_id)
    \/ TickClock

-----------------------------------------------------------------------------
(* AdvancedRateLimitMiddleware.dispatch *)

Path(names) ==
    [i \in 1..(2 * Len(names)) |-> IF i % 2 = 1 THEN "/" ELSE names[i \div 2]]

SearchPath == Path(<<"api", "v1", "flights", "search">>)
RequestsPath == Path(<<"api", "v1", "tracking", "requests">>)
CurrentPricePath == Path(<<"api", "v1", "flights", "current-price">>)
HealthPath == Path(<<"api", "v1", "health">>)
DocsPath == Path(<<"docs">>)
StaticPath == Path(<<"static", "app.js">>)

\* The requests dispatched: method and path.
HttpRequests ==
    {<<"GET", SearchPath>>, <<"POST", RequestsPath>>, <<"GET", RequestsPath>>,
     <<"GET", CurrentPricePath>>, <<"GET", HealthPath>>, <<"GET", DocsPath>>,
     <<"GET", StaticPath>>}

\* self.endpoint_limits.get(endpoint, self.endpoint_limits["default"]); the
\* default limit is settings.app.api_rate_limit.
limit_config(endpoint) ==
    IF endpoint = <<"GET", SearchPath>> THEN [limit |-> 60, window |-> 60]
    ELSE IF endpoint = <<"POST", RequestsPath>> THEN [limit |-> 20, window |-> 60]
    ELSE IF endpoint = <<"GET", RequestsPath>> THEN [limit |-> 100, window |-> 60]
    ELSE [limit |-> 100, window |-> 60]

\* AdvancedRateLimitMiddleware._should_skip_rate_limiting
should_skip_rate_limiting(path) ==
    \E skip_path \in {Path(<<"health">>), Path(<<"api", "v1", "health">>),
                      Path(<<"docs">>), Path(<<"redoc">>), Path(<<"openapi.json">>),
                      Path(<<"static">>), <<"/">>} :
        StartsWith(path, skip_path)

\* The endpoints endpoint_limits names.
LimitedEndpoints ==
    {<<"GET", SearchPath>>, <<"POST", RequestsPath>>, <<"GET", RequestsPath>>}

InitMiddleware ==
    /\ response = [request |-> <<"", <<>>>>, status |-> 0, limited |-> FALSE,
                   cache_state |-> "up", forwarded |-> FALSE]
    /\ passed = [e \in LimitedEndpoints |-> 0]

TotalPassed ==
    passed[<<"GET", SearchPath>>] + passed[<<"POST", RequestsPath>>]
        + passed[<<"GET", RequestsPath>>]

\* AdvancedRateLimitMiddleware.dispatch of one request of a client; the
\* application answers 200.
DispatchOver(client_id, request, cache_state) ==
    LET skip == should_skip_rate_limiting(request[2])
        config == limit_config(request)
        r == IF skip THEN [outcome |-> "ok", retry_after |-> 0, cache |-> cache]
             ELSE check_rate_limit_over(cache, cache_state, client_id, request,
                                        config.limit, config.window, clock)
    IN
    /\ request \in LimitedEndpoints => TotalPassed < MaxDispatch
    /\ cache' = r.cache
    /\ response' = [request |-> request,
                    status |-> IF r.outcome = "exceeded" THEN 429 ELSE 200,
                    limited |-> ~skip,
                    cache_state |-> cache_state,
                    forwarded |-> r.outcome # "exceeded"]
    /\ passed' = IF r.outcome = "ok" /\ request \in LimitedEndpoints
                 THEN [passed EXCEPT ![request] = @ + 1]
                 ELSE passed
    /\ UNCHANGED <<clock, rl, accepted, dbVars, detect, auxVars>>

\* The same over a cache that answers.
Dispatch(client_id, request) == DispatchOver(client_id, request, "up")

\* One client, and a clock that stays inside one 60-second window.
NextDispatch ==
    \/ \E request \in HttpRequests : Dispatch("ip:10.0.0.1", request)
    \/ TickClock

-----------------------------------------------------------------------------
(* Validation Service *)

\* Python values passed as a code: None, a non-zero int, or a str given as
\* the sequence of its characters.
PyNone == [kind |-> "none", chars |-> <<>>]
PyInt == [kind |-> "int", chars |-> <<>>]
PyStr(chars) == [kind |-> "str", chars |-> chars]

\* bool(value): None and the empty string are false.
Truthy(v) == v.kind = "int" \/ (v.kind = "str" /\ v.chars # <<>>)

UpperLetters ==
    {"A", "B", "C", "D", "E", "F", "G", "H", "I", "J", "K", "L", "M",
     "N", "O", "P", "Q", "R", "S", "T", "U", "V", "W", "X", "Y", "Z"}
LowerLetters ==
    {"a", "b", "c", "d", "e", "f", "g", "h", "i", "j", "k", "l", "m",
     "n", "o", "p", "q", "r", "s", "t", "u", "v", "w", "x", "y", "z"}

\* str.isupper: some cased character and no lower-case one.
isupper(chars) ==
    /\ \E i \in 1..Len(chars) : chars[i] \in UpperLetters
    /\ \A i \in 1..Len(chars) : chars[i] \notin LowerLetters

\* str.isalpha: not empty and letters only.
isalpha(chars) ==
    /\ chars # <<>>
    /\ \A i \in 1..Len(chars) : chars[i] \in UpperLetters \cup LowerLetters

\* The set self.known_iata_codes.
known_iata_codes ==
    {<<"A", "M", "S">>, <<"A", "R", "N">>, <<"A", "T", "L">>, <<"A", "U", "S">>,
     <<"B", "K", "K">>, <<"B", "N", "A">>, <<"B", "O", "S">>, <<"B", "W", "I">>,
     <<"C", "D", "G">>, <<"C", "L", "E">>, <<"C", "L", "T">>, <<"C", "M", "H">>,
     <<"C", "P", "H">>, <<"D", "C", "A">>, <<"D", "E", "N">>, <<"D", "F", "W">>,
     <<"D", "O", "H">>, <<"D", "T", "W">>, <<"D", "X", "B">>, <<"E", "W", "R">>,
     <<"E", "Z", "E">>, <<"F", "C", "O">>, <<"F", "R", "A">>, <<"G", "R", "U">>,
     <<"H", "E", "L">>, <<"H", "K", "G">>, <<"H", "N", "L">>, <<"I", "A", "D">>,
     <<"I", "C", "N">>, <<"I", "N", "D">>, <<"I", "S", "T">>, <<"J", "A", "X">>,
     <<"J", "F", "K">>, <<"K", "U", "L">>, <<"L", "A", "S">>, <<"L", "A", "X">>,
     <<"L", "G", "A">>, <<"L", "H", "R">>, <<"M", "A", "D">>, <<"M", "C", "I">>,
     <<"M", "D", "W">>, <<"M", "E", "L">>, <<"M", "I", "A">>, <<"M", "K", "E">>,
     <<"M", "S", "P">>, <<"M", "S", "Y">>, <<"M", "U", "C">>, <<"N", "R", "T">>,
     <<"O", "A", "K">>, <<"O", "M", "A">>, <<"O", "R", "D">>, <<"O", "S", "L">>,
     <<"P", "D", "X">>, <<"P", "E", "K">>, <<"P", "H", "L">>, <<"P", "H", "X">>,
     <<"P", "V", "G">>, <<"R", "D", "U">>, <<"S", "A", "N">>, <<"S", "E", "A">>,
     <<"S", "F", "O">>, <<"S", "I", "N">>, <<"S", "L", "C">>, <<"S", "T", "L">>,
     <<"S", "Y", "D">>, <<"T", "P", "A">>, <<"V", "I", "E">>, <<"Y", "V", "R">>,
     <<"Y", "Y", "Z">>, <<"Z", "U", "R">>}

\* self.iata_pattern.match(code) for re.compile(r'^[A-Z]{3}$'): three
\* upper-case letters from the start, then $, which in Python matches at the
\* end of the string and also just before a newline that ends the string.
iata_pattern_match(chars) ==
    /\ Len(chars) >= 3
    /\ \A i \in 1..3 : chars[i] \in UpperLetters
    /\ \/ Len(chars) = 3
       \/ (Len(chars) = 4 /\ chars[4] = "\n")

ValidationResult(is_valid, errors, warnings) ==
    [is_valid |-> is_valid, errors |-> errors, warnings |-> warnings]

\* ValidationService.validate_iata_code
validate_iata_code(code, allow_unknown) ==
    IF ~Truthy(code) THEN
        ValidationResult(FALSE, <<"IATA code is required">>, <<>>)
    ELSE IF code.kind # "str" THEN
        ValidationResult(FALSE, <<"IATA code must be a string">>, <<>>)
    ELSE IF ~iata_pattern_match(code.chars) THEN
        ValidationResult(FALSE,
            IF Len(code.chars) # 3
            THEN <<"IATA code must be exactly 3 characters">>
            ELSE IF ~isupper(code.chars) THEN <<"IATA code must be uppercase">>
            ELSE IF ~isalpha(code.chars)
            THEN <<"IATA code must contain only letters">>
            ELSE <<"Invalid IATA code format">>,
            <<>>)
    ELSE IF code.chars \notin known_iata_codes THEN
        IF allow_unknown
        THEN ValidationResult(TRUE, <<>>, <<"IATA code not in known airport list">>)
        ELSE ValidationResult(FALSE, <<"Unknown IATA airport code">>, <<>>)
    ELSE ValidationResult(TRUE, <<>>, <<>>)

\* Mutant: equal codes are not reported.
same_route_ignored(origin, destination) == FALSE

\* origin and destination and origin == destination
same_route(origin, destination) ==
    Truthy(origin) /\ Truthy(destination) /\ origin = destination

\* f"Origin: {error}" for each message
Prefixed(prefix, messages) ==
    [i \in 1..Len(messages) |-> <<prefix, messages[i]>>]

\* ValidationService.validate_route
validate_route(origin, destination) ==
    LET origin_result == validate_iata_code(origin, TRUE)
        destination_result == validate_iata_code(destination, TRUE)
        errors ==
            Prefixed("Origin", origin_result.errors)
            \o Prefixed("Destination", destination_result.errors)
            \o (IF same_route(origin, destination)
                THEN <<<<"", "Origin and destination cannot be the same">>>>
                ELSE <<>>)
        warnings ==
            Prefixed("Origin", origin_result.warnings)
            \o Prefixed("Destination", destination_result.warnings)
    IN ValidationResult(errors = <<>>, errors, warnings)

-----------------------------------------------------------------------------
(* Validation Service: dates *)

\* The calendar behind the day numbers: day 0 is 2024-02-27, so that day 2
\* is the leap day 2024-02-29.
IsLeap(y) == (y % 4 = 0 /\ y % 100 # 0) \/ y % 400 = 0

DaysInMonth(y, m) ==
    IF m = 2 THEN (IF IsLeap(y) THEN 29 ELSE 28)
    ELSE IF m \in {4, 6, 9, 11} THEN 30 ELSE 31

\* Days since 1970-01-01 of a civil date, and back (proleptic Gregorian).
days_from_civil(y, m, d) ==
    LET yy == IF m <= 2 THEN y - 1 ELSE y
        era == yy \div 400
        yoe == yy - era * 400
        mp == (m + 9) % 12
        doy == (153 * mp + 2) \div 5 + d - 1
        doe == yoe * 365 + yoe \div 4 - yoe \div 100 + doy
    IN era * 146097 + doe - 719468

civil_from_days(z) ==
    LET zz == z + 719468
        era == zz \div 146097
        doe == zz - era * 146097
        yoe == (doe - doe \div 1460 + doe \div 36524 - doe \div 146096) \div 365
        doy == doe - (365 * yoe + yoe \div 4 - yoe \div 100)
        mp == (5 * doy + 2) \div 153
        d == doy - (153 * mp + 2) \div 5 + 1
        m == IF mp < 10 THEN mp + 3 ELSE mp - 9
        y == yoe + era * 400 + (IF m <= 2 THEN 1 ELSE 0)
    IN [year |-> y, month |-> m, day |-> d]

EpochDay == days_from_civil(2024, 2, 27)

DateOf(n) == civil_from_days(EpochDay + n)

\* today.replace(year=today.year + 1): the same month and day a year later,
\* or ValueError when that day does not exist (29 February).
replace_year(today) ==
    LET c == DateOf(today) IN
    IF c.day > DaysInMonth(c.year + 1, c.month)
    THEN [raised |-> TRUE, date |-> NULL]
    ELSE [raised |-> FALSE,
          date |-> days_from_civil(c.year + 1, c.month, c.day) - EpochDay]

\* The days date.today() takes, and max_future_date on each of them.
Days == 0..MaxNow
max_future_dates == [today \in Days |-> replace_year(today)]

Raised == [raised |-> TRUE, is_valid |-> FALSE, errors |-> <<>>, warnings |-> <<>>]

Returned(result) ==
    [raised |-> FALSE, is_valid |-> result.is_valid, errors |-> result.errors,
     warnings |-> result.warnings]

\* departure_date <= today
departure_in_past(departure_date, today) == departure_date <= today

\* ValidationService.validate_date_range at date.today() = today: the
\* ValidationResult returned, or the ValueError that leaves the method.
validate_date_range(departure_date, return_date, today) ==
    IF departure_date = NULL THEN
        Returned(ValidationResult(FALSE, <<"Departure date is required">>, <<>>))
    ELSE
      LET e1 == IF departure_in_past(departure_date, today)
                THEN <<"Departure date must be in the future">> ELSE <<>>
          max_future_date == max_future_dates[today]
          w1 == IF ~max_future_date.raised /\ departure_date > max_future_date.date
                THEN <<"Departure date is more than 1 year in the future">>
                ELSE <<>>
          e2 == IF return_date # NULL /\ return_date <= departure_date
                THEN <<"Return date must be after departure date">> ELSE <<>>
          w2 == IF return_date # NULL /\ return_date - departure_date > 30
                THEN <<"Trip duration is more than 30 days">> ELSE <<>>
      IN
      IF max_future_date.raised THEN Raised
      ELSE Returned(ValidationResult(e1 \o e2 = <<>>, e1 \o e2, w1 \o w2))

\* abs(chat_id) > 10**12, with 10**12 written as 10**6 * 10**6.
chat_id_out_of_range(chat_id) ==
    \/ Abs(chat_id) \div 1000000 > 1000000
    \/ (Abs(chat_id) \div 1000000 = 1000000 /\ Abs(chat_id) % 1000000 > 0)

\* ValidationService.validate_telegram_chat_id
validate_telegram_chat_id(chat_id) ==
    LET e1 == IF chat_id = 0 THEN <<"Telegram chat ID cannot be zero">> ELSE <<>>
        e2 == IF chat_id_out_of_range(chat_id)
              THEN <<"Telegram chat ID is out of valid range">> ELSE <<>>
    IN ValidationResult(e1 \o e2 = <<>>, e1 \o e2, <<>>)

\* ValidationService.validate_price_threshold, in hundredths of a percent.
validate_price_threshold(threshold) ==
    LET errors ==
            IF threshold < 100 THEN <<"Price threshold must be at least 1.0%">>
            ELSE IF threshold > 5000 THEN <<"Price threshold cannot exceed 50.0%">>
            ELSE <<>>
        warnings ==
            IF threshold < 200
            THEN <<"Very low price threshold may result in many notifications">>
            ELSE IF threshold > 2000
            THEN <<"High price threshold may miss significant price changes">>
            ELSE <<>>
    IN ValidationResult(errors = <<>>, errors, warnings)

\* The characters of the airport codes the payloads carry.
IataText ==
    [s \in {"JFK", "LAX", "J1K"} |->
        IF s = "JFK" THEN <<"J", "F", "K">>
        ELSE IF s = "LAX" THEN <<"L", "A", "X">>
        ELSE <<"J", "1", "K">>]

\* The end of validate_tracking_request_data: the errors and warnings of the
\* four validators collected, or the error of the except branch when
\* validate_date_range raised.
all_results(route_result, date_result, chat_id_result, threshold_result) ==
    IF date_result.raised THEN
        ValidationResult(FALSE,
            route_result.errors \o <<"Validation error: day is out of range for month">>,
            route_result.warnings)
    ELSE
        LET errors == route_result.errors \o date_result.errors
                      \o chat_id_result.errors \o threshold_result.errors
        IN ValidationResult(errors = <<>>, errors,
               route_result.warnings \o date_result.warnings
               \o chat_id_result.warnings \o threshold_result.warnings)

\* ValidationService.validate_tracking_request_data on request_data.dict():
\* the required fields are present, the currency is the default "USD", and
\* an exception of a validator is caught and reported as an error.
validate_tracking_request_data(data, today) ==
    all_results(validate_route(PyStr(IataText[data.origin_iata]),
                               PyStr(IataText[data.destination_iata])),
                validate_date_range(data.departure_date, data.return_date, today),
                validate_telegram_chat_id(data.telegram_chat_id),
                validate_price_threshold(data.price_threshold))

-----------------------------------------------------------------------------
(* CacheManager: set, get and delete over Redis *)

CacheKeyNames == {"tracking_request:1", "flight_price:1"}
CacheTtl == 2

\* Values a caller hands to set (value: Any): its Python type and its text.
PyNoneValue == [py |-> "NoneType", text |-> "None"]
CacheValues ==
    {[py |-> "int", text |-> "1"],
     [py |-> "str", text |-> "199.99"],
     [py |-> "Decimal", text |-> "199.99"],
     [py |-> "list", text |-> "[1, 2]"],
     [py |-> "tuple", text |-> "[1, 2]"],
     PyNoneValue}

\* json.dumps(value, default=str): a type JSON has no form for is written as
\* the string str(value); a tuple is written as an array.
json_dumps(value) ==
    CASE value.py = "int" -> [json |-> "number", text |-> value.text]
      [] value.py = "str" -> [json |-> "string", text |-> value.text]
      [] value.py = "Decimal" -> [json |-> "string", text |-> value.text]
      [] value.py = "list" -> [json |-> "array", text |-> value.text]
      [] value.py = "tuple" -> [json |-> "array", text |-> value.text]
      [] value.py = "NoneType" -> [json |-> "null", text |-> "None"]

\* json.loads(payload): a number is an int, a string a str, an array a list,
\* null is None.
json_loads(payload) ==
    CASE payload.json = "number" -> [py |-> "int", text |-> payload.text]
      [] payload.json = "string" -> [py |-> "str", text |-> payload.text]
      [] payload.json = "array" -> [py |-> "list", text |-> payload.text]
      [] payload.json = "null" -> PyNoneValue

\* A payload json.loads raises JSONDecodeError on.
CorruptPayload == [json |-> "invalid", text |-> "{"]
JSONDecodeError(payload) == payload.json = "invalid"

NoEntry ==
    [present |-> FALSE, payload |-> CorruptPayload, expires |-> 0,
     value |-> PyNoneValue, by_set |-> FALSE]

NoExpiry == -1         \* the expiry of a key that was given none

\* A key is there while it is stored and its expiry, if any, lies ahead.
redis_live(s, key, now) ==
    key \in DOMAIN s /\ (s[key].expires = NoExpiry \/ s[key].expires > now)

\* redis.get(key): the entry of a key that is stored and has not expired.
\* Besides the payload and the expiry the entry remembers the value set was
\* called with.
redis_get(s, key, now) ==
    IF redis_live(s, key, now)
    THEN [present |-> TRUE, payload |-> s[key].payload, expires |-> s[key].expires,
          value |-> s[key].value, by_set |-> s[key].by_set]
    ELSE NoEntry

\* redis.setex(key, ttl, payload)
redis_setex(s, key, ttl, payload, value, by_set, now) ==
    [k \in DOMAIN s \cup {key} |->
        IF k = key
        THEN [payload |-> payload, expires |-> now + ttl, value |-> value,
              by_set |-> by_set]
        ELSE s[k]]

\* redis.delete(key)
redis_delete(s, key) == [k \in DOMAIN s \ {key} |-> s[k]]

\* CacheManager.set(key, value, ttl)
CacheManagerSet(key, value, ttl) ==
    /\ store' = redis_setex(store, key, ttl, json_dumps(value), value, TRUE, clock)
    /\ reply' = [op |-> "set", key |-> key, at |-> clock, entry |-> NoEntry,
                 result |-> PyNoneValue, removed |-> FALSE]
    /\ UNCHANGED <<svcVars, dbVars, detect, rlVars, mwVars, val, api, creating, cycles,
                   inflight>>

\* CacheManager.get(key)
CacheManagerGet(key) ==
    LET entry == redis_get(store, key, clock)
        corrupted == entry.present /\ JSONDecodeError(entry.payload)
    IN
    /\ store' = IF corrupted THEN redis_delete(store, key) ELSE store
    /\ reply' = [op |-> "get", key |-> key, at |-> clock, entry |-> entry,
                 result |-> IF entry.present /\ ~corrupted
                            THEN json_loads(entry.payload)
                            ELSE PyNoneValue,
                 removed |-> key \notin DOMAIN store']
    /\ UNCHANGED <<svcVars, dbVars, detect, rlVars, mwVars, val, api, creating, cycles,
                   inflight>>

\* CacheManager.delete(key)
CacheManagerDelete(key) ==
    /\ key \in DOMAIN store
    /\ store' = redis_delete(store, key)
    /\ reply' = [op |-> "delete", key |-> key, at |-> clock, entry |-> NoEntry,
                 result |-> PyNoneValue, removed |-> TRUE]
    /\ UNCHANGED <<svcVars, dbVars, detect, rlVars, mwVars, val, api, creating, cycles,
                   inflight>>

\* Another client of the Redis server writes a payload that is not JSON.
RedisWriteRaw(key) ==
    /\ store' = redis_setex(store, key, CacheTtl, CorruptPayload, PyNoneValue,
                            FALSE, clock)
    /\ reply' = [op |-> "raw", key |-> key, at |-> clock, entry |-> NoEntry,
                 result |-> PyNoneValue, removed |-> FALSE]
    /\ UNCHANGED <<svcVars, dbVars, detect, rlVars, mwVars, val, api, creating, cycles,
                   inflight>>

-----------------------------------------------------------------------------
(* Concurrent calls of create_tracking_request *)

\* Two callers, each in its own session.
Callers == {"call_1", "call_2"}

\* First half of create_tracking_request: the session runs
\* _check_duplicate_request and keeps what it found.
CreateCheck(caller, rd) ==
    /\ ValidCreate(rd, utcnow)
    /\ IF caller \in DOMAIN creating THEN creating[caller].pc = "done" ELSE TRUE
    /\ creating' = [c \in DOMAIN creating \cup {caller} |->
                      IF c = caller
                      THEN [pc |-> "checked", data |-> rd,
                            existing |-> check_duplicate_request(requests, rd) # {},
                            result |-> "none", overlapped |-> {}]
                      ELSE creating[c]]
    /\ UNCHANGED <<svcVars, dbVars, detect, rlVars, mwVars, val, api, store, reply, cycles,
                   inflight>>

\* The outcome of the second half: the error for a row found by the check,
\* else session.add and commit, where the unique index may refuse the row.
insert_result(reqs, existing, rd) ==
    IF existing THEN "duplicate"
    ELSE IF uq_tracking_request(reqs, rd) THEN "failed"
    ELSE "created"

\* Second half of create_tracking_request.  The history keeps the callers that
\* had run their check and not yet finished when this one committed.
CreateInsert(caller) ==
    /\ caller \in DOMAIN creating
    /\ creating[caller].pc = "checked"
    /\ LET rd == creating[caller].data
           res == insert_result(requests, creating[caller].existing, rd)
       IN
       /\ res = "created" => next_id <= MaxRequests
       /\ requests' = IF res = "created"
                      THEN [id \in DOMAIN requests \cup {next_id} |->
                              IF id = next_id THEN NewRow(rd) ELSE requests[id]]
                      ELSE requests
       /\ next_id' = IF res = "created" THEN next_id + 1 ELSE next_id
       /\ updated_at' = stamp(updated_at, DOMAIN requests', DOMAIN requests' \ DOMAIN requests,
                             utcnow)
       /\ last' = Last("create", rd, res, 0, Changed(requests, requests'), 0,
                       NoRows, NoObs)
       /\ creating' = [creating EXCEPT ![caller] =
                          [@ EXCEPT !.pc = "done", !.result = res,
                                    !.overlapped =
                                       {c \in DOMAIN creating \ {caller} :
                                           creating[c].pc = "checked"}]]
    /\ UNCHANGED <<svcVars, notification_log, price_history, utcnow, detect, rlVars, mwVars,
                   val, api, store, reply, cycles, inflight>>

-----------------------------------------------------------------------------
(* Concurrent cycles of check_all_active_requests *)

\* Two cycles, each in its own session.
CycleIds == {"cycle_1", "cycle_2"}

\* First half of check_all_active_requests: the session loads the active
\* requests; the objects keep the column values read now.
CycleLoad(cy) ==
    LET loaded == ActiveRequests(requests, utcnow) IN
    /\ IF cy \in DOMAIN cycles THEN cycles[cy].pc = "done" ELSE TRUE
    /\ loaded # {}
    /\ cycles' = [c \in DOMAIN cycles \cup {cy} |->
                    IF c = cy
                    THEN [pc |-> "loaded",
                          loaded |-> [id \in loaded |-> requests[id]],
                          set_baseline |-> {}]
                    ELSE cycles[c]]
    /\ UNCHANGED <<svcVars, dbVars, detect, rlVars, mwVars, val, api, store, reply, creating,
                   inflight>>

\* session.commit(): the UPDATE of one loaded object writes the columns whose
\* value the cycle changed, over whatever the row holds by then.
flush(row, loaded_row, checked_row) ==
    [row EXCEPT
        !.baseline_price = IF checked_row.baseline_price # loaded_row.baseline_price
                           THEN checked_row.baseline_price ELSE @,
        !.current_price = IF checked_row.current_price # loaded_row.current_price
                          THEN checked_row.current_price ELSE @]

\* Second half of check_all_active_requests: check_single_request on every
\* loaded object, the notifications sent and logged on the way, then the
\* commit.  The history keeps the requests whose baseline this cycle set.
CycleCheck(cy, obs) ==
    /\ cy \in DOMAIN cycles
    /\ cycles[cy].pc = "loaded"
    /\ LET objects == cycles[cy].loaded
           ids == DOMAIN objects
           db == [requests |-> objects, notification_log |-> notification_log,
                  price_history |-> price_history]
           after == check_each(db, ids, obs)
       IN
       /\ obs \in Observations(ids)
       /\ ids \subseteq DOMAIN requests
       /\ Len(after.price_history) <= MaxHistory
       /\ requests' = [id \in DOMAIN requests |->
                          IF id \in ids
                          THEN flush(requests[id], objects[id], after.requests[id])
                          ELSE requests[id]]
       /\ updated_at' = stamp(updated_at, DOMAIN requests, priced(ids, obs), utcnow)
       /\ notification_log' = after.notification_log
       /\ price_history' = after.price_history
       /\ cycles' = [cycles EXCEPT ![cy] =
                        [@ EXCEPT !.pc = "done",
                                  !.set_baseline =
                                     {id \in ids :
                                         /\ objects[id].baseline_price = NULL
                                         /\ obs[id].price # NULL}]]
    /\ UNCHANGED <<svcVars, next_id, utcnow, last, detect, rlVars, mwVars, val, api, store,
                   reply, creating, inflight>>

-----------------------------------------------------------------------------
(* Concurrent calls of _check_rate_limit *)

\* Two requests of one process, each a task of the event loop.
Tasks == {"task_1", "task_2"}

\* First half of _check_rate_limit: now is taken and the task waits for
\* cache_manager.get; the task keeps what the cache held then.
RateRead(task, client_id) ==
    /\ IF task \in DOMAIN inflight THEN inflight[task].pc = "done" ELSE TRUE
    /\ Len(accepted[client_id]) < MaxAccepted
    /\ inflight' = [t \in DOMAIN inflight \cup {task} |->
                      IF t = task
                      THEN [pc |-> "read", client_id |-> client_id, now |-> clock,
                            seen |-> cache, outcome |-> "none"]
                      ELSE inflight[t]]
    /\ UNCHANGED <<svcVars, dbVars, detect, rlVars, mwVars, val, api, store, reply, creating,
                   cycles>>

\* Second half of _check_rate_limit: the decision on what was read, and for
\* an accepted request the cache_manager.set of the list it built.
RateWrite(task) ==
    /\ task \in DOMAIN inflight
    /\ inflight[task].pc = "read"
    /\ LET client_id == inflight[task].client_id
           cache_key == rate_limit_key(client_id, CheckEndpoint)
           r == check_rate_limit(inflight[task].seen, client_id, CheckEndpoint,
                                 CheckLimit, CheckWindow, inflight[task].now)
       IN
       /\ cache' = IF r.outcome = "ok"
                   THEN cache_set(cache, cache_key, r.cache[cache_key],
                                  CheckWindow, clock)
                   ELSE cache
       /\ rl' = [client_id |-> client_id, outcome |-> r.outcome,
                 retry_after |-> r.retry_after, at |-> inflight[task].now,
                 cache_state |-> "up"]
       /\ accepted' = IF r.outcome = "ok"
                      THEN [accepted EXCEPT ![client_id] =
                               Append(@, inflight[task].now)]
                      ELSE accepted
       /\ inflight' = [inflight EXCEPT ![task] =
                          [@ EXCEPT !.pc = "done", !.outcome = r.outcome]]
    /\ UNCHANGED <<svcVars, clock, dbVars, detect, mwVars, val, api, store, reply, creating,
                   cycles>>

-----------------------------------------------------------------------------
(* check_all_active_requests with its counters and its error branch *)

\* _send_error_notification: a delivered message is logged as sent; a
\* delivery that raises is only written to the application log.
send_error(log, id, delivered) ==
    IF delivered THEN Append(log, LogRow(id, "error", "sent", NULL, NULL)) ELSE log

\* Mutant: the first failure leaves the loop.
attempted_until_failure(loaded, raising) ==
    {id \in loaded : \A j \in raising : id <= j}

\* The requests the loop of check_all_active_requests reaches: the try inside
\* the loop catches the exception of a request, so all that were loaded.
attempted(loaded, raising) == loaded

\* The loop with its except branch: check_single_request raises for the ids
\* in raising, before it has a price, and the error notification of the ids
\* in reported is delivered.
RECURSIVE check_each_caught(_, _, _, _, _)
check_each_caught(db, ids, obs, raising, reported) ==
    IF ids = {} THEN db
    ELSE LET id == CHOOSE i \in ids : \A j \in ids : i <= j IN
         check_each_caught(
             IF id \in raising
             THEN [db EXCEPT !.notification_log =
                                send_error(db.notification_log, id, id \in reported)]
             ELSE check_single_request(db, id, obs[id].price, obs[id].delivered),
             ids \ {id}, obs, raising, reported)

\* The dictionary check_all_active_requests returns: total_checked and errors
\* are counted in the loop; nothing adds to price_changes or
\* notifications_sent.
cycle_stats(reached, raising) ==
    [total_checked |-> Cardinality(reached \ raising),
     price_changes |-> 0,
     notifications_sent |-> 0,
     errors |-> Cardinality(reached \cap raising)]

\* PriceMonitoringService.check_all_active_requests with the dictionary it
\* returns.  The history keeps the requests loaded, those whose check raised,
\* those reached by the loop and the length of both tables before the cycle.
RunPriceCheckCycle(obs, raising, reported) ==
    LET loaded == ActiveRequests(requests, utcnow)
        reached == attempted(loaded, raising)
        db == [requests |-> requests, notification_log |-> notification_log,
               price_history |-> price_history]
        after == check_each_caught(db, reached, obs, raising, reported)
    IN
    /\ loaded # {}
    /\ obs \in Observations(loaded)
    /\ reported \subseteq raising /\ raising \subseteq loaded
    /\ \A id \in raising : obs[id].price = NULL
    /\ Len(after.price_history) <= MaxHistory
    /\ Len(after.notification_log) <= MaxLog
    /\ requests' = after.requests
    /\ updated_at' = stamp(updated_at, DOMAIN requests, priced(loaded, obs), utcnow)
    /\ notification_log' = after.notification_log
    /\ price_history' = after.price_history
    /\ last' = Last("check_all", NoData,
                    [stats |-> cycle_stats(reached, raising), loaded |-> loaded,
                     raising |-> raising, reached |-> reached,
                     history_before |-> Len(price_history)],
                    Cardinality(loaded), Changed(requests, requests'),
                    Len(notification_log') - Len(notification_log),
                    requests, obs)
    /\ UNCHANGED <<next_id, utcnow, detect, rlVars, mwVars, auxVars>>

-----------------------------------------------------------------------------
(* FlightService: the bearer token and the live search.  In this section
   one unit of clock is a minute. *)

SafetyMargin == 1      \* the 60-second buffer taken off the token's lifetime
TokenLifetimes == {2, 3}

\* Python values whose type matters to a comparison.
Unset == [type |-> "NoneType", value |-> 0]
PyFloat(x) == [type |-> "float", value |-> x]

truthy(x) == x.type # "NoneType" /\ x.value # 0

\* datetime.now() < x: a datetime is ordered against datetimes only.
datetime_lt(now, x) ==
    IF x.type = "datetime"
    THEN [raised |-> FALSE, value |-> now < x.value]
    ELSE [raised |-> TRUE, value |-> FALSE]

\* FlightService.__init__: credentials come from the environment.
FlightService(credentials) ==
    [use_mock_data |-> ~credentials,
     access_token |-> "",
     token_expires_at |-> Unset]

TokenReplies ==
    {[kind |-> "ok", expires_in |-> e] : e \in TokenLifetimes}
    \cup {[kind |-> k, expires_in |-> 0] : k \in {"HTTPError", "KeyError"}}

SearchReplies == {"ok", "HTTPError", "ValueError"}

request_token(svc, now, token_reply) ==
    CASE token_reply.kind = "ok" ->
           [svc |-> [svc EXCEPT
                       !.access_token = "token",
                       !.token_expires_at =
                           PyFloat(now + token_reply.expires_in - SafetyMargin)],
            outcome |-> "token", contacted |-> TRUE]
      [] token_reply.kind = "HTTPError" ->
           [svc |-> svc, outcome |-> "FlightAPIError", contacted |-> TRUE]
      [] OTHER ->
           [svc |-> svc, outcome |-> token_reply.kind, contacted |-> TRUE]

authenticate(svc, now, token_reply) ==
    IF svc.use_mock_data
    THEN [svc |-> svc, outcome |-> "FlightAPIError", contacted |-> FALSE]
    ELSE IF svc.access_token # "" /\ truthy(svc.token_expires_at)
    THEN IF datetime_lt(now, svc.token_expires_at).raised
         THEN [svc |-> svc, outcome |-> "TypeError", contacted |-> FALSE]
         ELSE IF datetime_lt(now, svc.token_expires_at).value
         THEN [svc |-> svc, outcome |-> "cached", contacted |-> FALSE]
         ELSE request_token(svc, now, token_reply)
    ELSE request_token(svc, now, token_reply)

Authenticated == {"token", "cached"}

\* The result of search_flights given what authenticate did.
search_outcome(auth, search_reply) ==
    IF auth.outcome \notin Authenticated
    THEN [outcome |-> "FlightAPIError", searched |-> FALSE]
    ELSE CASE search_reply = "ok" -> [outcome |-> "offers", searched |-> TRUE]
           [] search_reply = "HTTPError" -> [outcome |-> "mock", searched |-> TRUE]
           [] OTHER -> [outcome |-> "FlightAPIError", searched |-> TRUE]

NoCall ==
    [op |-> "none", at |-> 0, before |-> FlightService(FALSE), auth |-> "none",
     contacted |-> FALSE, searched |-> FALSE, outcome |-> "none",
     token_reply |-> "none", search_reply |-> "none"]

NoFlight == [svc |-> FlightService(FALSE), call |-> NoCall]

\* A process start: the module-level flight_service is constructed.
FlightServiceStart(credentials) ==
    /\ flight' = [svc |-> FlightService(credentials), call |-> NoCall]
    /\ UNCHANGED <<taskVars, dbVars, detect, rlVars, mwVars, val, api, store, reply, creating,
                   cycles, inflight, celery_task, fixed, connected, called>>

FlightAuthenticate(token_reply) ==
    \E auth \in {authenticate(flight.svc, clock, token_reply)} :
        /\ flight' =
             [svc |-> auth.svc,
              call |-> [op |-> "authenticate", at |-> clock, before |-> flight.svc,
                        auth |-> auth.outcome, contacted |-> auth.contacted,
                        searched |-> FALSE, outcome |-> auth.outcome,
                        token_reply |-> token_reply.kind, search_reply |-> "none"]]
        /\ UNCHANGED <<taskVars, dbVars, detect, rlVars, mwVars, val, api, store, reply,
                       creating, cycles, inflight, celery_task, fixed, connected, called>>

FlightSearch(token_reply, search_reply) ==
    IF flight.svc.use_mock_data
    THEN /\ flight' =
              [flight EXCEPT
                 !.call = [op |-> "search_flights", at |-> clock,
                           before |-> flight.svc, auth |-> "none",
                           contacted |-> FALSE, searched |-> FALSE,
                           outcome |-> "mock", token_reply |-> "none",
                           search_reply |-> "none"]]
         /\ UNCHANGED <<taskVars, dbVars, detect, rlVars, mwVars, val, api, store, reply,
                        creating, cycles, inflight, celery_task, fixed, connected, called>>
    ELSE \E auth \in {authenticate(flight.svc, clock, token_reply)} :
         \E res \in {search_outcome(auth, search_reply)} :
            /\ flight' =
                 [svc |-> auth.svc,
                  call |-> [op |-> "search_flights", at |-> clock,
                            before |-> flight.svc, auth |-> auth.outcome,
                            contacted |-> auth.contacted,
                            searched |-> res.searched, outcome |-> res.outcome,
                            token_reply |-> token_reply.kind,
                            search_reply |-> search_reply]]
            /\ UNCHANGED <<taskVars, dbVars, detect, rlVars, mwVars, val, api, store, reply,
                           creating, cycles, inflight, celery_task, fixed, connected, called>>

-----------------------------------------------------------------------------
(* Task retry strategies (tasks/utils.py) *)

DEFAULT_MAX_RETRIES == 3
DEFAULT_COUNTDOWN == 60

StrategyNames == {"api_call", "database", "notification", "price_check", "critical"}

\* Any name retry_task_on_error may be given; "default" has no configuration.
Strategies == StrategyNames \cup {"default"}

\* The entries of retry_on, the classes apart from the strings.
retry_on_classes(strategy) ==
    IF strategy = "api_call" THEN {"ConnectionError", "TimeoutError"} ELSE {}

retry_on(strategy) ==
    CASE strategy = "api_call" -> {"5xx_http_errors"}
      [] strategy = "database" -> {"connection_errors", "timeout_errors"}
      [] strategy = "notification" -> {"telegram_api_errors", "network_errors"}
      [] strategy = "price_check" -> {"flight_api_errors", "rate_limit_errors"}
      [] strategy = "critical" -> {"system_errors"}
      [] OTHER -> {}

max_retries(strategy) ==
    CASE strategy = "api_call" -> 5
      [] strategy = "database" -> 3
      [] strategy = "notification" -> 3
      [] strategy = "price_check" -> 2
      [] strategy = "critical" -> 1
      [] OTHER -> DEFAULT_MAX_RETRIES

Pow2(n) == IF n >= 3 THEN 8 ELSE IF n = 2 THEN 4 ELSE IF n = 1 THEN 2 ELSE 1

get_retry_countdown(strategy, retry_count) ==
    CASE strategy = "api_call" ->
           IF 60 * Pow2(retry_count) < 300 THEN 60 * Pow2(retry_count) ELSE 300
      [] strategy = "database" -> 30 * (retry_count + 1)
      [] strategy = "notification" -> 60 * (retry_count + 1)
      [] strategy = "price_check" -> 120
      [] strategy = "critical" -> 300
      [] OTHER -> DEFAULT_COUNTDOWN

\* An exception: the name of its class and the words of interest that
\* str(error).lower() contains.
ErrorTypes ==
    {"TelegramAPIError", "ConnectError", "ConnectionError", "TimeoutError",
     "FlightAPIError", "ValueError"}
ErrorWords == {"connection", "timeout", "rate limit", "5xx"}
Errors ==
    {[type |-> t, message |-> m] :
        t \in ErrorTypes, m \in {{}} \cup {{w} : w \in ErrorWords}}

should_retry_error(error, strategy) ==
    \/ error.type \in retry_on(strategy)
    \/ error.type \in retry_on_classes(strategy)
    \/ "connection" \in error.message /\ "connection_errors" \in retry_on(strategy)
    \/ "timeout" \in error.message /\ "timeout_errors" \in retry_on(strategy)
    \/ "rate limit" \in error.message /\ "rate_limit_errors" \in retry_on(strategy)
    \/ "5xx" \in error.message /\ "5xx_http_errors" \in retry_on(strategy)

\* Task.retry of Celery: past the task's own max_retries it raises the
\* exception it was given, otherwise Retry.
celery_retry(retries, task_max_retries) ==
    IF retries + 1 > task_max_retries THEN "exc" ELSE "Retry"

budget_remains_inclusive(strategy, retries) == retries <= max_retries(strategy)

budget_remains(strategy, retries) == retries < max_retries(strategy)

\* What the wrapper of retry_task_on_error raises when the body raised exc.
wrapper(strategy, retries, exc, task_max_retries) ==
    IF should_retry_error(exc, strategy) /\ budget_remains(strategy, retries)
    THEN [raised |-> celery_retry(retries, task_max_retries),
          countdown |-> get_retry_countdown(strategy, retries)]
    ELSE [raised |-> "exc", countdown |-> 0]

\* The max_retries a task is declared with (Celery's default is 3).
TaskMaxRetries == {3, 6}

NoError == [type |-> "none", message |-> {}]

NoTask ==
    [strategy |-> "default", task_max_retries |-> 3, retries |-> 0,
     state |-> "none", exc |-> NoError, raised |-> "none", countdown |-> 0]

\* apply_async: a task decorated with the strategy is queued.
TaskSubmit(strategy, task_max_retries) ==
    /\ celery_task.state \notin {"queued", "retry"}
    /\ celery_task' = [NoTask EXCEPT !.strategy = strategy,
                              !.task_max_retries = task_max_retries,
                              !.state = "queued"]
    /\ UNCHANGED <<taskVars, dbVars, detect, rlVars, mwVars, val, api, store, reply, creating,
                   cycles, inflight, flight, fixed, connected, called>>

\* The worker runs the body and it returns.
TaskSucceeds ==
    /\ celery_task.state \in {"queued", "retry"}
    /\ celery_task' = [celery_task EXCEPT !.state = "succeeded", !.exc = NoError,
                            !.raised = "none", !.countdown = 0]
    /\ UNCHANGED <<taskVars, dbVars, detect, rlVars, mwVars, val, api, store, reply, creating,
                   cycles, inflight, flight, fixed, connected, called>>

\* The worker runs the body and it raises exc; a Retry makes the worker
\* run the task again with request.retries one higher.
TaskFails(exc) ==
    /\ celery_task.state \in {"queued", "retry"}
    /\ \E w \in {wrapper(celery_task.strategy, celery_task.retries, exc,
                       celery_task.task_max_retries)} :
          celery_task' = [celery_task EXCEPT
                     !.exc = exc,
                     !.raised = w.raised,
                     !.countdown = w.countdown,
                     !.state = IF w.raised = "Retry" THEN "retry" ELSE "failed",
                     !.retries = IF w.raised = "Retry" THEN @ + 1 ELSE @]
    /\ UNCHANGED <<taskVars, dbVars, detect, rlVars, mwVars, val, api, store, reply, creating,
                   cycles, inflight, flight, fixed, connected, called>>

-----------------------------------------------------------------------------
(* CacheManager: every method, over a store that may be down *)

MaxCounter == 3        \* largest number a counter key is incremented to

\* The text of an int and back.
IntTexts == <<"0", "1", "2", "3", "4", "5", "6", "7">>
int_text(n) == IntTexts[n + 1]
text_int(text) == CHOOSE n \in 0..7 : IntTexts[n + 1] = text

IntValue(n) == [py |-> "int", text |-> int_text(n)]
PyBool(b) == [py |-> "bool", text |-> IF b THEN "True" ELSE "False"]

CacheMethods ==
    {"get", "set", "delete", "delete_pattern", "exists", "increment", "get_ttl"}

\* What the except branch of each method returns.
fallback(method) ==
    CASE method \in {"get", "increment", "get_ttl"} -> PyNoneValue
      [] method \in {"set", "delete", "exists"} -> PyBool(FALSE)
      [] method = "delete_pattern" -> IntValue(0)

\* The classes of the exceptions a method meets.
CacheExceptions == {"CacheError", "ConnectionError", "ResponseError"}

\* Mutant: the handler catches the errors of the redis client only.
except_RedisError(exc) == exc \in {"ConnectionError", "ResponseError"}

\* except Exception: each of the classes derives from Exception.
except_Exception(exc) == exc \in CacheExceptions

\* self.redis.<command>(...): the property raises CacheError while _redis
\* is None, the client raises ConnectionError while the server is down.
redis_raises(is_connected, up) ==
    IF ~is_connected THEN "CacheError"
    ELSE IF ~up THEN "ConnectionError"
    ELSE ""

\* Keys a pattern matches: "<name>:*" the keys of that name, "*" all.
PatternKeys(s, pattern, now) ==
    {k \in DOMAIN s :
        /\ redis_live(s, k, now)
        /\ \/ pattern = "*"
           \/ pattern = "tracking_request:*" /\ k = "tracking_request:1"
           \/ pattern = "flight_price:*" /\ k = "flight_price:1"}

\* redis.incrby(key, 1): a missing key counts from 0 and gets no expiry, a
\* payload that is not an integer is refused.
redis_incrby(s, key, now) ==
    IF ~redis_live(s, key, now)
    THEN [exc |-> "", n |-> 1,
          store |-> [k \in DOMAIN s \cup {key} |->
                        IF k = key
                        THEN [payload |-> [json |-> "number", text |-> "1"],
                              expires |-> NoExpiry, value |-> IntValue(1),
                              by_set |-> FALSE]
                        ELSE s[k]]]
    ELSE IF s[key].payload.json # "number"
    THEN [exc |-> "ResponseError", n |-> 0, store |-> s]
    ELSE [exc |-> "", n |-> text_int(s[key].payload.text) + 1,
          store |-> [s EXCEPT ![key].payload.text = int_text(text_int(@) + 1),
                              ![key].value = IntValue(text_int(s[key].payload.text) + 1),
                              ![key].by_set = FALSE]]

\* redis.ttl(key): -2 for a missing key, -1 for one without expiry.
redis_ttl(s, key, now) ==
    IF ~redis_live(s, key, now) THEN -2
    ELSE IF s[key].expires = NoExpiry THEN -1
    ELSE s[key].expires - now

\* The try block of a method over a store that answers: the exception it
\* meets ("" for none), what it returns and the store afterwards.
try_block(method, s, key, value, ttl, now) ==
    CASE method = "get" ->
           LET entry == redis_get(s, key, now) IN
           IF ~entry.present THEN [exc |-> "", returned |-> PyNoneValue, store |-> s]
           ELSE IF JSONDecodeError(entry.payload)
           THEN [exc |-> "", returned |-> PyNoneValue, store |-> redis_delete(s, key)]
           ELSE [exc |-> "", returned |-> json_loads(entry.payload), store |-> s]
      [] method = "set" ->
           [exc |-> "", returned |-> PyBool(TRUE),
            store |-> redis_setex(s, key, ttl, json_dumps(value), value, TRUE, now)]
      [] method = "delete" ->
           [exc |-> "", returned |-> PyBool(redis_live(s, key, now)),
            store |-> redis_delete(s, key)]
      [] method = "delete_pattern" ->
           [exc |-> "", returned |-> IntValue(Cardinality(PatternKeys(s, key, now))),
            store |-> [k \in DOMAIN s \ PatternKeys(s, key, now) |-> s[k]]]
      [] method = "exists" ->
           [exc |-> "", returned |-> PyBool(redis_live(s, key, now)), store |-> s]
      [] method = "increment" ->
           LET r == redis_incrby(s, key, now) IN
           [exc |-> r.exc, returned |-> IntValue(r.n), store |-> r.store]
      [] method = "get_ttl" ->
           [exc |-> "",
            returned |-> IF redis_ttl(s, key, now) > 0
                         THEN IntValue(redis_ttl(s, key, now)) ELSE PyNoneValue,
            store |-> s]

\* The except branch: a caught exception gives the fallback, any other
\* one leaves the method.
handled(method, exc, s) ==
    IF except_Exception(exc)
    THEN [propagated |-> "", returned |-> fallback(method), store |-> s]
    ELSE [propagated |-> exc, returned |-> PyNoneValue, store |-> s]

\* A method of CacheManager called at time now.
cache_method(method, s, is_connected, up, key, value, ttl, now) ==
    IF redis_raises(is_connected, up) # ""
    THEN handled(method, redis_raises(is_connected, up), s)
    ELSE IF try_block(method, s, key, value, ttl, now).exc # ""
    THEN handled(method, try_block(method, s, key, value, ttl, now).exc, s)
    ELSE [propagated |-> "",
          returned |-> try_block(method, s, key, value, ttl, now).returned,
          store |-> try_block(method, s, key, value, ttl, now).store]

NoCalled ==
    [method |-> "none", key |-> "", up |-> TRUE, was_connected |-> FALSE,
     propagated |-> "", returned |-> PyNoneValue, unchanged |-> TRUE]

\* CacheManager.connect: the client is kept also when the ping fails.
CacheManagerConnect ==
    /\ ~connected
    /\ connected' = TRUE
    /\ UNCHANGED <<taskVars, dbVars, detect, rlVars, mwVars, val, api, store, reply, creating,
                   cycles, inflight, flight, celery_task, fixed, called>>

\* One call of a method; key is the pattern for delete_pattern.
CacheManagerCall(method, key, value, up) ==
    \E r \in {cache_method(method, store, connected, up, key, value, CacheTtl,
                           clock)} :
        /\ method = "increment" /\ redis_live(store, key, clock)
               /\ store[key].payload.json = "number"
               => text_int(store[key].payload.text) < MaxCounter
        /\ store' = r.store
        /\ called' = [method |-> method, key |-> key, up |-> up,
                      was_connected |-> connected, propagated |-> r.propagated,
                      returned |-> r.returned, unchanged |-> r.store = store]
        /\ UNCHANGED <<taskVars, dbVars, detect, rlVars, mwVars, val, api, reply, creating,
                       cycles, inflight, flight, celery_task, fixed, connected>>

-----------------------------------------------------------------------------
(* RateLimitMiddleware: the fixed-window counter *)

\* CacheKeys.rate_limit(client_id, endpoint) of the one client and endpoint
\* the checks are made for.
FixedKey == "rate_limit:GET:/api:ip:10.0.0.1"

\* First half of _check_rate_limit: the task waits for cache_manager.get and
\* keeps the count it was given.
FixedRead(t, up) ==
    /\ IF t \in DOMAIN fixed THEN fixed[t].pc = "done" ELSE TRUE
    /\ \E r \in {cache_method("get", store, connected, up, FixedKey, PyNoneValue,
                              CheckWindow, clock)} :
          /\ store' = r.store
          /\ fixed' = [k \in DOMAIN fixed \cup {t} |->
                          IF k = t
                          THEN [pc |-> "read", current_count |-> r.returned,
                                outcome |-> "none", retry_after |-> 0, at |-> clock]
                          ELSE fixed[k]]
    /\ UNCHANGED <<taskVars, dbVars, detect, rlVars, mwVars, val, api, reply, creating, cycles,
                   inflight, flight, celery_task, connected, called>>

\* What the second half does with the count: the first request of a window
\* sets the key with the window as ttl, a count at the limit is refused
\* with the key's ttl, any other count is incremented.
fixed_window(s, is_connected, up, current_count, limit, window, now) ==
    IF current_count = PyNoneValue
    THEN [outcome |-> "ok", retry_after |-> 0,
          store |-> cache_method("set", s, is_connected, up, FixedKey, IntValue(1),
                                 window, now).store]
    ELSE IF text_int(current_count.text) >= limit
    THEN LET ttl == cache_method("get_ttl", s, is_connected, up, FixedKey,
                                 PyNoneValue, window, now).returned
         IN [outcome |-> "exceeded",
             retry_after |-> IF ttl = PyNoneValue THEN window ELSE text_int(ttl.text),
             store |-> s]
    ELSE [outcome |-> "ok", retry_after |-> 0,
          store |-> cache_method("increment", s, is_connected, up, FixedKey,
                                 PyNoneValue, window, now).store]

\* Second half of _check_rate_limit.
FixedWrite(t, up) ==
    /\ t \in DOMAIN fixed
    /\ fixed[t].pc = "read"
    /\ \E r \in {fixed_window(store, connected, up, fixed[t].current_count,
                              CheckLimit, CheckWindow, clock)} :
          /\ store' = r.store
          /\ fixed' = [fixed EXCEPT ![t] =
                          [pc |-> "done", current_count |-> @.current_count,
                           outcome |-> r.outcome, retry_after |-> r.retry_after,
                           at |-> clock]]
    /\ UNCHANGED <<taskVars, dbVars, detect, rlVars, mwVars, val, api, reply, creating, cycles,
                   inflight, flight, celery_task, connected, called>>

-----------------------------------------------------------------------------
(* Celery tasks of tasks/price_check.py and tasks/notifications.py *)

TaskNames ==
    {"check_prices_for_request", "send_price_alert_notification",
     "send_tracking_started_notification", "send_tracking_stopped_notification",
     "send_expiry_warning_notification"}

\* max_retries of the task decorators.
decorator_max_retries(name) ==
    CASE name = "check_prices_for_request" -> 3
      [] name = "send_price_alert_notification" -> 3
      [] name = "send_tracking_started_notification" -> 2
      [] name = "send_tracking_stopped_notification" -> 2
      [] name = "send_expiry_warning_notification" -> 1

\* Mutant: every retry after one minute.
retry_countdown_flat(name, retries) == 60

\* countdown of self.retry in the except branch of each task.
retry_countdown(name, retries) ==
    CASE name = "send_price_alert_notification" -> 30 * Pow2(retries)
      [] name = "send_expiry_warning_notification" -> 60
      [] OTHER -> 60 * Pow2(retries)

\* get_db() is a generator function: the call returns a generator object and
\* runs none of its body.
get_db == [type |-> "generator"]

\* Session(bind) keeps whatever it is given.
Session(bind) == [bind |-> bind]

\* The first statement of a session asks its bind for a connection:
\* bind.connect() of an Engine, the Connection itself, AttributeError of
\* anything else.
connection_for_bind(session) ==
    IF session.bind.type \in {"Engine", "Connection"} THEN "Connection"
    ELSE "AttributeError"

\* FlightService.search_flights(self, params) called with the keywords
\* origin_iata, destination_iata, departure_date and return_date.
search_flights_call(keywords) ==
    IF keywords = {"params"} THEN "coroutine" ELSE "TypeError"

\* TelegramService.send_message(self, message) called with the keywords
\* chat_id, message and parse_mode.
send_message_call(keywords) ==
    IF keywords = {"message"} THEN "coroutine" ELSE "TypeError"

NoResult == [status |-> "none"]

\* The try block of check_prices_for_request: what it raises or returns and
\* the requests table it leaves.
check_prices_for_request(reqs, request_id, now) ==
    IF connection_for_bind(Session(get_db)) # "Connection"
    THEN [raised |-> connection_for_bind(Session(get_db)), result |-> NoResult,
          requests |-> reqs, written |-> {}]
    ELSE IF request_id \notin DOMAIN reqs
    THEN [raised |-> "none", result |-> [status |-> "not_found"],
          requests |-> reqs, written |-> {}]
    ELSE IF ~reqs[request_id].is_active
    THEN [raised |-> "none", result |-> [status |-> "inactive"],
          requests |-> reqs, written |-> {}]
    ELSE IF reqs[request_id].expires_at < now
    THEN [raised |-> "none", result |-> [status |-> "expired"],
          requests |-> [reqs EXCEPT ![request_id].is_active = FALSE],
          written |-> {request_id}]
    ELSE [raised |-> search_flights_call({"origin_iata", "destination_iata",
                                          "departure_date", "return_date"}),
          result |-> NoResult, requests |-> reqs, written |-> {}]

\* The try block of the four notification tasks: the message is built and
\* handed to telegram_service.send_message.
send_notification(reqs) ==
    [raised |-> send_message_call({"chat_id", "message", "parse_mode"}),
     result |-> NoResult, requests |-> reqs, written |-> {}]

task_body(name, reqs, request_id, now) ==
    IF name = "check_prices_for_request"
    THEN check_prices_for_request(reqs, request_id, now)
    ELSE send_notification(reqs)

\* History: what the request of a task was when an attempt started.
guard_case(reqs, request_id, now) ==
    IF request_id \notin DOMAIN reqs THEN "unknown"
    ELSE IF ~reqs[request_id].is_active THEN "inactive"
    ELSE IF reqs[request_id].expires_at < now THEN "expired"
    ELSE "live"

NoJob ==
    [name |-> "none", request_id |-> NULL, retries |-> 0, state |-> "none",
     countdowns |-> <<>>, raised |-> "none", result |-> NoResult, met |-> "none",
     args |-> <<>>]

NoHash == [started |-> FALSE, seed |-> <<>>]

\* task.delay(...): the task is queued.
JobSubmit(name, request_id) ==
    /\ job.state \notin {"queued", "retry"}
    /\ job' = [NoJob EXCEPT !.name = name, !.request_id = request_id,
                            !.state = "queued"]
    /\ UNCHANGED <<pyhash, flight, celery_task, fixed, connected, called, dbVars, detect,
                   rlVars, mwVars, val, api, store, reply, creating, cycles, inflight>>

\* The worker runs one attempt of the queued task: the try block, and in its
\* except branch self.retry, which schedules the next attempt while
\* request.retries < max_retries and raises the error after that.
JobRun ==
    \E body \in {task_body(job.name, requests, job.request_id, utcnow)} :
        /\ job.state \in {"queued", "retry"}
        /\ job.name \in TaskNames
        /\ requests' = body.requests
        /\ updated_at' = stamp(updated_at, DOMAIN requests, body.written, utcnow)
        /\ job' =
             [IF body.raised = "none"
              THEN [job EXCEPT !.state = "succeeded", !.result = body.result]
              ELSE IF celery_retry(job.retries, decorator_max_retries(job.name)) = "Retry"
              THEN [job EXCEPT !.state = "retry", !.retries = @ + 1,
                               !.raised = body.raised,
                               !.countdowns =
                                   Append(@, retry_countdown(job.name, job.retries))]
              ELSE [job EXCEPT !.state = "failed", !.raised = body.raised]
              EXCEPT !.met = guard_case(requests, job.request_id, utcnow)]
        /\ UNCHANGED <<pyhash, flight, celery_task, fixed, connected, called, next_id,
                       notification_log, price_history, utcnow, last, detect,
                       rlVars, mwVars, val, api, store, reply, creating, cycles, inflight>>

\* send_bulk_notifications: the entries are dicts, here the value under
\* "type" ("None" when the key is missing) and the set of the other keys.
NotificationTypes ==
    {"price_alert", "tracking_started", "tracking_stopped", "expiry_warning"}

\* Mutant: every type counts as known.
known_type_any(notification_type) == TRUE

known_type(notification_type) == notification_type \in NotificationTypes

\* The keys each branch reads with request[...]; request.get(...) reads
\* the others.
required_keys(notification_type) ==
    CASE notification_type = "price_alert" ->
             {"chat_id", "request_id", "old_price", "new_price", "change_percentage"}
      [] notification_type = "tracking_started" ->
             {"chat_id", "request_id", "tracking_details"}
      [] notification_type = "tracking_stopped" -> {"chat_id", "request_id"}
      [] notification_type = "expiry_warning" -> {"chat_id", "request_id", "expires_at"}
      [] OTHER -> {}

\* One pass of the loop body: "ok", or str(e) of what it raised.  The
\* arguments are evaluated before .delay() publishes to the broker.
dispatch(request, broker_up) ==
    IF ~known_type(request.type) THEN "Unknown notification type"
    ELSE IF ~(required_keys(request.type) \subseteq request.keys) THEN "KeyError"
    ELSE IF ~broker_up THEN "OperationalError"
    ELSE "ok"

RECURSIVE bulk_loop(_, _, _)
bulk_loop(results, notification_requests, broker_up) ==
    IF notification_requests = <<>> THEN results
    ELSE LET e == dispatch(Head(notification_requests), broker_up)
         IN  bulk_loop(IF e = "ok"
                       THEN [results EXCEPT !.successful = @ + 1]
                       ELSE [results EXCEPT !.failed = @ + 1,
                                            !.errors = Append(@, e)],
                       Tail(notification_requests), broker_up)

send_bulk_notifications(notification_requests, broker_up) ==
    bulk_loop([status |-> "returned", total |-> Len(notification_requests),
               successful |-> 0, failed |-> 0, errors |-> <<>>],
              notification_requests, broker_up)

SendBulkNotifications(notification_requests, broker_up) ==
    /\ job' = [NoJob EXCEPT !.name = "send_bulk_notifications",
                            !.args = notification_requests,
                            !.state = "succeeded",
                            !.result = send_bulk_notifications(notification_requests,
                                                               broker_up)]
    /\ UNCHANGED <<pyhash, flight, celery_task, fixed, connected, called, dbVars, detect,
                   rlVars, mwVars, val, api, store, reply, creating, cycles, inflight>>

\* tasks/utils.py safe_task_execution: func returns a value or raises; an
\* except Exception clause lets the exceptions outside Exception through.
ExceptionClasses == {"ValueError", "KeyError"}

caught(raised) == raised \in ExceptionClasses

safe_task_execution(func, start_time, end_time) ==
    IF func.raised = "none"
    THEN [status |-> "success", result |-> func.value,
          execution_time |-> end_time - start_time, timestamp |-> end_time]
    ELSE [status |-> "error", error_type |-> func.raised,
          error_message |-> func.message, timestamp |-> end_time]

\* func runs for duration days of the clock.
SafeTaskExecution(func, duration) ==
    /\ utcnow + duration <= MaxNow
    /\ utcnow' = utcnow + duration
    /\ job' = IF func.raised = "none" \/ caught(func.raised)
              THEN [NoJob EXCEPT !.name = "safe_task_execution",
                                 !.args = <<func>>,
                                 !.state = "succeeded",
                                 !.result = safe_task_execution(func, utcnow,
                                                                utcnow + duration)]
              ELSE [NoJob EXCEPT !.name = "safe_task_execution",
                                 !.args = <<func>>,
                                 !.state = "failed",
                                 !.raised = func.raised]
    /\ UNCHANGED <<pyhash, flight, celery_task, fixed, connected, called, requests,
                   next_id, notification_log, price_history, last, updated_at, detect,
                   rlVars, mwVars, val, api, store, reply, creating, cycles, inflight>>

\* The mock offers of FlightService._get_mock_flight_data.  hash() of a str
\* is keyed by a seed the interpreter draws when it starts: within a process
\* it is one function of the string, from one process to the next another.
\* The string hashed is the two IATA codes one after the other; the codes
\* have three letters, so the string stands for the pair.
MockRoutes == {<<"JFK", "LAX">>, <<"LAX", "JFK">>}
HashValues == {-1, 0, 250}
Airlines == 0..3

InterpreterStart(seed) ==
    /\ ~pyhash.started
    /\ pyhash' = [started |-> TRUE, seed |-> seed]
    /\ UNCHANGED <<job, flight, celery_task, fixed, connected, called, dbVars, detect,
                   rlVars, mwVars, val, api, store, reply, creating, cycles, inflight>>

hash(h, origin, destination) == h.seed[<<origin, destination>>]

\* Mutant: the hash taken of the route and the time of the search.
mock_price_dated(h, i, origin, destination, now) ==
    (300 + i * 50 + ((hash(h, origin, destination) + 7 * now) % 200)) * 100

\* Decimal(str(base_price + (i * 50) + (hash(...) % 200))), in cents.
\* datetime.now() goes into source_data and search_metadata only.
mock_price(h, i, origin, destination, now) ==
    (300 + i * 50 + (hash(h, origin, destination) % 200)) * 100

mock_flight_data(h, params, now) ==
    [flights |-> [i \in Airlines |->
                     [price |-> mock_price(h, i, params.origin, params.destination, now),
                      currency |-> params.currency]],
     search_metadata |-> [search_date |-> now, source |-> "mock"],
     total_results |-> Cardinality(Airlines)]

\* min(flight.price for flight in results.flights)
lowest_price(flights) ==
    CHOOSE p \in {flights[i].price : i \in DOMAIN flights} :
        \A i \in DOMAIN flights : p <= flights[i].price

\* FlightService.get_current_price in mock mode.
get_current_price(h, r, now) ==
    LET params == [origin |-> r.origin_iata, destination |-> r.destination_iata,
                   departure_date |-> r.departure_date, return_date |-> r.return_date,
                   adults |-> 1, currency |-> "USD"]
        results == mock_flight_data(h, params, now)
    IN  IF DOMAIN results.flights # {} THEN lowest_price(results.flights) ELSE NULL

\* A monitoring cycle of a process in mock mode.
MockCheck(delivered) ==
    /\ pyhash.started
    /\ CheckAllActiveRequests(
           [id \in ActiveRequests(requests, utcnow) |->
               [price |-> get_current_price(pyhash, requests[id], utcnow),
                delivered |-> delivered]])

-----------------------------------------------------------------------------
(* API handlers of the tracking router *)

\* The payloads FastAPI hands to the handler: FlightTrackingRequestCreate
\* accepts any three characters as a code and any integer as a chat id.
ApiPayloads ==
    [origin_iata : {"JFK", "LAX", "J1K"}, destination_iata : {"LAX"},
     departure_date : DepartureDates, return_date : ReturnDates,
     telegram_chat_id : {1001, 0}, price_threshold : {500}]

\* The status the handler create_tracking_request answers with.  Its
\* HTTPException(422) is raised inside the try block, whose handlers are
\* "except TrackingServiceError" and then "except Exception": HTTPException
\* is an Exception, so it is caught there and replaced by HTTPException(500).
create_status(is_valid, service_result) ==
    IF ~is_valid THEN 500
    ELSE IF service_result = "created" THEN 201
    ELSE 400

\* The service is called only after a successful validation.
create_outcome(reqs, rd, is_valid) ==
    IF is_valid THEN create_result(reqs, rd) ELSE "not_called"

\* POST /requests: the handler create_tracking_request and the service call
\* it makes.
ApiCreateTrackingRequest(rd) ==
    \E is_valid \in {validate_tracking_request_data(rd, utcnow).is_valid} :
    \E res \in {create_outcome(requests, rd, is_valid)} :
    /\ ValidCreate(rd, utcnow)
    /\ res = "created" => next_id <= MaxRequests
    /\ requests' = IF res = "created"
                   THEN [id \in DOMAIN requests \cup {next_id} |->
                           IF id = next_id THEN NewRow(rd) ELSE requests[id]]
                   ELSE requests
    /\ next_id' = IF res = "created" THEN next_id + 1 ELSE next_id
    /\ updated_at' = stamp(updated_at, DOMAIN requests', DOMAIN requests' \ DOMAIN requests,
                          utcnow)
    /\ last' = Last("create", rd, res, 0, Changed(requests, requests'), 0,
                    NoRows, NoObs)
    /\ api' = [op |-> "create_tracking_request", data |-> rd,
               is_valid |-> is_valid, service |-> res,
               created |-> Changed(requests, requests'),
               status |-> create_status(is_valid, res)]
    /\ UNCHANGED <<svcVars, notification_log, price_history, utcnow, detect, rlVars, mwVars,
                   val, store, reply, creating, cycles, inflight>>

\* The rows of one request in price_history, newest first: checked_at is
\* utcnow() at insertion, so the order by checked_at desc is the reverse of
\* the insertion order.
history_desc(hist, request_id) ==
    LET rows == SelectSeq(hist, LAMBDA h : h.tracking_request_id = request_id)
    IN [i \in 1..Len(rows) |-> rows[Len(rows) + 1 - i]]

\* Mutant: the offset counts pages from 0.
page_offset_from_zero(page, limit) == page * limit

\* offset = (page - 1) * limit
page_offset(page, limit) == (page - 1) * limit

\* TrackingService.get_price_history: None for an unknown request, else the
\* page, the total count and has_next.
get_price_history(reqs, hist, request_id, page, limit) ==
    IF request_id \notin DOMAIN reqs
    THEN [found |-> FALSE, prices |-> <<>>, total_count |-> 0, has_next |-> FALSE]
    ELSE
      LET rows == history_desc(hist, request_id)
          offset == page_offset(page, limit)
          upto == IF offset + limit < Len(rows) THEN offset + limit ELSE Len(rows)
      IN [found |-> TRUE,
          prices |-> SubSeq(rows, offset + 1, upto),
          total_count |-> Len(rows),
          has_next |-> Len(rows) > page * limit]

\* GET /requests/{request_id}/prices: the handler get_price_history; the
\* history keeps whether the request existed and the prices recorded for it
\* when the call was made, oldest first.
ApiGetPriceHistory(request_id, page, limit) ==
    LET price_history_page ==
            get_price_history(requests, price_history, request_id, page, limit)
    IN
    /\ api' = [op |-> "get_price_history", request_id |-> request_id,
               page |-> page, limit |-> limit, result |-> price_history_page,
               exists |-> request_id \in DOMAIN requests,
               recorded |-> SelectSeq(price_history,
                               LAMBDA h : h.tracking_request_id = request_id),
               status |-> IF price_history_page.found THEN 200 ELSE 404]
    /\ UNCHANGED <<svcVars, dbVars, detect, rlVars, mwVars, val, store, reply, creating,
                   cycles, inflight>>

-----------------------------------------------------------------------------
(* Specification of the request lifecycle: the CRUD service and the sweep *)

NoDetect == [old |-> NULL, new |-> NULL, threshold |-> NULL, result |-> "none"]

\* Empty tables, nothing checked yet.
InitDb ==
    /\ requests = [i \in {} |-> NewRow(NoData)]
    /\ next_id = 1
    /\ notification_log = <<>>
    /\ price_history = <<>>
    /\ utcnow = 0
    /\ updated_at = [i \in {} |-> 0]
    /\ last = [op |-> "init", data |-> NoData, result |-> "done", count |-> 0,
               changed |-> {}, written |-> 0, repeat |-> FALSE,
               pre |-> NoRows, obs |-> NoObs]

\* No call of the validation service, of an API handler or of the cache
\* manager made yet, and nothing in flight.
NoVal == [fn |-> "none"]
NoApi == [op |-> "none"]
NoReply == [op |-> "none"]

InitIdle ==
    /\ api = NoApi
    /\ store = <<>>
    /\ reply = NoReply
    /\ creating = <<>>
    /\ cycles = <<>>
    /\ inflight = <<>>
    /\ flight = NoFlight
    /\ celery_task = NoTask
    /\ fixed = <<>>
    /\ connected = FALSE
    /\ called = NoCalled
    /\ job = NoJob
    /\ pyhash = NoHash

InitAux ==
    /\ val = NoVal
    /\ InitIdle

Init ==
    /\ InitDb
    /\ detect = NoDetect
    /\ InitCache
    /\ InitMiddleware
    /\ InitAux

\* The lifecycle specification creates with the default threshold and
\* updates is_active only.
LifecycleCreates == {rd \in RequestData : rd.price_threshold = 500}
LifecycleUpdates == {ud \in UpdateData : ud.price_threshold = NULL}

Next ==
    \/ \E rd \in LifecycleCreates : CreateTrackingRequest(rd)
    \/ \E id \in Ids, ud \in LifecycleUpdates : UpdateTrackingRequest(id, ud)
    \/ \E id \in Ids : DeleteTrackingRequest(id)
    \/ \E delivered \in SUBSET Ids : ExpireOldRequests(delivered)
    \/ Tick

Spec == Init /\ [][Next]_vars

\* The payload that stops the tracking of a request.
Deactivate == [price_threshold |-> NULL, is_active |-> <<FALSE>>]

\* The expiry sweep on its own: one-way requests of both days created and
\* deactivated while the days pass.
SweepCreates ==
    {rd \in RequestData : rd.price_threshold = 500 /\ rd.return_date = NULL}

NextSweep ==
    \/ \E rd \in SweepCreates : CreateTrackingRequest(rd)
    \/ \E id \in Ids : UpdateTrackingRequest(id, Deactivate)
    \/ \E delivered \in SUBSET Ids : ExpireOldRequests(delivered)
    \/ Tick

SpecSweep == Init /\ [][NextSweep]_vars

\* The sliding-window check called directly, for two clients.
SpecRate == Init /\ [][NextRate]_vars

\* The middleware in front of the application.
SpecDispatch == Init /\ [][NextDispatch]_vars

-----------------------------------------------------------------------------
(* Specification of price monitoring: requests are created, re-thresholded *)
(* and checked                                                             *)

\* Two one-way requests, each with its own threshold (5% and 1%).
MonitorCreates ==
    {rd \in RequestData :
        /\ rd.return_date = NULL
        /\ \/ (rd.departure_date = 1 /\ rd.price_threshold = 500)
           \/ (rd.departure_date = 2 /\ rd.price_threshold = 100)}

NextMonitor ==
    \/ \E rd \in MonitorCreates : CreateTrackingRequest(rd)
    \/ \E obs \in Observations(ActiveRequests(requests, utcnow)) :
          CheckAllActiveRequests(obs)

SpecMonitor == Init /\ [][NextMonitor]_vars

-----------------------------------------------------------------------------
(* Specification of the change-detection rule alone *)

DetectThresholds == {100, 499, 500, 5000}

InitDetect ==
    /\ InitDb
    /\ InitCache
    /\ InitMiddleware
    /\ InitAux
    /\ detect \in [old : Prices, new : Prices, threshold : DetectThresholds,
                   result : {"none"}]

\* One call of _detect_price_change on the drawn inputs.
DetectPriceChange ==
    /\ detect.result = "none"
    /\ detect' = [detect EXCEPT !.result =
                    IF detect_price_change(detect.old, detect.new, detect.threshold)
                    THEN "significant" ELSE "not_significant"]
    /\ UNCHANGED <<dbVars, rlVars, mwVars, auxVars>>

NextDetect == DetectPriceChange

SpecDetect == InitDetect /\ [][NextDetect]_vars

-----------------------------------------------------------------------------
(* Specifications of the validation calls: the arguments are drawn, the     *)
(* method is called once                                                    *)

InitValidation ==
    /\ InitDb
    /\ detect = NoDetect
    /\ InitCache
    /\ InitMiddleware
    /\ InitIdle

NotCalled == [raised |-> FALSE, is_valid |-> FALSE, errors |-> <<>>, warnings |-> <<>>]

IataChars == {"J", "F", "K", "j", "1", "\n"}

\* None, an int, and every string of up to MaxCodeLen of these characters.
IataInputs ==
    {PyNone, PyInt} \cup
    UNION {{PyStr(chars) : chars \in [1..n -> IataChars]} : n \in 0..MaxCodeLen}

InitIata ==
    /\ InitValidation
    /\ val \in [fn : {"validate_iata_code"}, code : IataInputs,
                allow_unknown : BOOLEAN, done : {FALSE}, result : {NotCalled}]

\* One call of validate_iata_code(code, allow_unknown).
ValidateIataCode ==
    /\ val.fn = "validate_iata_code" /\ ~val.done
    /\ val' = [val EXCEPT !.done = TRUE,
                          !.result = Returned(validate_iata_code(val.code, val.allow_unknown))]
    /\ UNCHANGED <<svcVars, dbVars, detect, rlVars, mwVars, api, store, reply, creating,
                   cycles, inflight>>

NextIata == ValidateIataCode

SpecIata == InitIata /\ [][NextIata]_vars

RouteInputs ==
    {PyNone, PyInt, PyStr(<<>>), PyStr(<<"J", "F", "K">>), PyStr(<<"L", "A", "X">>),
     PyStr(<<"J", "J", "J">>), PyStr(<<"j", "f", "k">>), PyStr(<<"J", "1", "K">>),
     PyStr(<<"J", "F", "K", "\n">>), PyStr(<<"J", "F">>), PyStr(<<"J", "F", "K", "J">>)}

InitRoute ==
    /\ InitValidation
    /\ val \in [fn : {"validate_route"}, origin : RouteInputs,
                destination : RouteInputs, done : {FALSE}, result : {NotCalled}]

\* One call of validate_route(origin, destination).
ValidateRoute ==
    /\ val.fn = "validate_route" /\ ~val.done
    /\ val' = [val EXCEPT !.done = TRUE,
                          !.result = Returned(validate_route(val.origin, val.destination))]
    /\ UNCHANGED <<svcVars, dbVars, detect, rlVars, mwVars, api, store, reply, creating,
                   cycles, inflight>>

NextRoute == ValidateRoute

SpecRoute == InitRoute /\ [][NextRoute]_vars

\* Today is one of 2024-02-27 .. 2024-03-01; the dates passed lie around it,
\* a month later and a year later.
Todays == Days
DateInputs == {NULL} \cup 1..5 \cup {40, 366, 367, 368}

InitDates ==
    /\ InitValidation
    /\ val \in [fn : {"validate_date_range"}, today : Todays,
                departure_date : DateInputs, return_date : DateInputs,
                done : {FALSE}, result : {NotCalled}]

\* One call of validate_date_range(departure_date, return_date).
ValidateDateRange ==
    /\ val.fn = "validate_date_range" /\ ~val.done
    /\ val' = [val EXCEPT !.done = TRUE,
                          !.result = validate_date_range(val.departure_date,
                                                         val.return_date, val.today)]
    /\ UNCHANGED <<svcVars, dbVars, detect, rlVars, mwVars, api, store, reply, creating,
                   cycles, inflight>>

NextDates == ValidateDateRange

SpecDates == InitDates /\ [][NextDates]_vars

-----------------------------------------------------------------------------
(* Specifications of the API handlers *)

NextApi ==
    \/ \E rd \in ApiPayloads : ApiCreateTrackingRequest(rd)
    \/ \E id \in Ids : DeleteTrackingRequest(id)
    \/ Tick

SpecApi == Init /\ [][NextApi]_vars

\* Two callers creating requests, their checks and inserts interleaved.
RaceCreates == {rd \in RequestData : rd.price_threshold = 500}

NextCreateRace ==
    \/ \E caller \in Callers, rd \in RaceCreates : CreateCheck(caller, rd)
    \/ \E caller \in Callers : CreateInsert(caller)

SpecCreateRace == Init /\ [][NextCreateRace]_vars

\* Two price-check cycles over one request, their loads and commits
\* interleaved.
CycleObservations ==
    UNION {Observations(DOMAIN cycles[cy].loaded) : cy \in DOMAIN cycles}

CycleCreates == {rd \in MonitorCreates : rd.departure_date = 2}

NextCheckRace ==
    \/ \E rd \in CycleCreates : CreateTrackingRequest(rd)
    \/ \E cy \in CycleIds : CycleLoad(cy)
    \/ \E cy \in CycleIds, obs \in CycleObservations : CycleCheck(cy, obs)

SpecCheckRace == Init /\ [][NextCheckRace]_vars

\* Two requests of one client passing the limiter, their reads and writes
\* interleaved.
RaceClients == {"ip:10.0.0.1"}

NextRateRace ==
    \/ \E task \in Tasks, client_id \in RaceClients : RateRead(task, client_id)
    \/ \E task \in Tasks : RateWrite(task)
    \/ TickClock

SpecRateRace == Init /\ [][NextRateRace]_vars

\* Price-check cycles in which the check of a request may raise.
CyclePrices == {NULL, 10000, 10500}
CycleOutcomes(ids) ==
    {obs \in Observations(ids) :
        \A id \in ids : obs[id].price \in CyclePrices
                         /\ obs[id].delivered = (obs[id].price # NULL)}

NextCycle ==
    \/ \E rd \in MonitorCreates : CreateTrackingRequest(rd)
    \/ \E obs \in CycleOutcomes(ActiveRequests(requests, utcnow)),
          raising \in SUBSET ActiveRequests(requests, utcnow) :
          \E reported \in SUBSET raising : RunPriceCheckCycle(obs, raising, reported)

SpecCycle == Init /\ [][NextCycle]_vars

\* The flight service on its own: started with or without credentials,
\* authenticating and searching while the minutes pass.
NextFlight ==
    \/ \E credentials \in BOOLEAN : FlightServiceStart(credentials)
    \/ \E token_reply \in TokenReplies : FlightAuthenticate(token_reply)
    \/ \E token_reply \in TokenReplies, search_reply \in SearchReplies :
          FlightSearch(token_reply, search_reply)
    \/ TickClock

SpecFlight == Init /\ [][NextFlight]_vars

\* A wrapped task on its own: submitted under any strategy, run by the
\* worker until it succeeds or is given up.
NextTask ==
    \/ \E strategy \in Strategies, task_max_retries \in TaskMaxRetries :
          TaskSubmit(strategy, task_max_retries)
    \/ TaskSucceeds
    \/ \E exc \in Errors : TaskFails(exc)

SpecTask == Init /\ [][NextTask]_vars

\* Two requests of one client pass the fixed-window check while the
\* seconds pass and the cache comes and goes.
NextFixed ==
    \/ CacheManagerConnect
    \/ \E t \in Tasks, up \in BOOLEAN : FixedRead(t, up)
    \/ \E t \in Tasks, up \in BOOLEAN : FixedWrite(t, up)
    \/ TickClock

SpecFixed == Init /\ [][NextFixed]_vars

\* Every method of CacheManager, before and after connect, over a server
\* that answers or not; another client may leave a payload that is not JSON.
FailureValues == {[py |-> "int", text |-> "1"], [py |-> "str", text |-> "199.99"]}
Patterns == {"*", "tracking_request:*", "flight_price:*"}
KeyArguments(method) == IF method = "delete_pattern" THEN Patterns ELSE CacheKeyNames

NextCacheFailure ==
    \/ CacheManagerConnect
    \/ \E method \in CacheMethods, value \in FailureValues, up \in BOOLEAN :
          \E key \in KeyArguments(method) : CacheManagerCall(method, key, value, up)
    \/ \E key \in CacheKeyNames : RedisWriteRaw(key)

SpecCacheFailure == Init /\ [][NextCacheFailure]_vars

\* Requests of one client dispatched, and checks of its limit made, over
\* the cache in any state, while the seconds pass.
FailOpenRequests == {<<"GET", CurrentPricePath>>, <<"GET", HealthPath>>}

NextFailOpen ==
    \/ \E request \in FailOpenRequests, cache_state \in CacheStates :
          DispatchOver("ip:10.0.0.1", request, cache_state)
    \/ \E cache_state \in CacheStates :
          /\ Len(accepted["ip:10.0.0.1"]) < MaxAccepted
          /\ CheckRateLimitOver("ip:10.0.0.1", cache_state)
    \/ TickClock

SpecFailOpen == Init /\ [][NextFailOpen]_vars

\* The tables with their timestamps: requests in two currencies created,
\* updated, checked, deleted and cleaned up while the days pass.
Currencies == {"USD", "EUR"}

StoreCreates ==
    {[origin_iata |-> "JFK", destination_iata |-> "LAX", departure_date |-> 2,
      return_date |-> NULL, telegram_chat_id |-> 1001, price_threshold |-> 500,
      currency |-> "EUR"],
     [origin_iata |-> "JFK", destination_iata |-> "LAX", departure_date |-> 3,
      return_date |-> NULL, telegram_chat_id |-> 1001, price_threshold |-> 500,
      currency |-> "USD"]}

StoreUpdates ==
    {[price_threshold |-> NULL, is_active |-> <<>>],
     [price_threshold |-> 100, is_active |-> <<>>],
     [price_threshold |-> NULL, is_active |-> <<FALSE>>]}

StoreObservation ==
    {[price |-> NULL, delivered |-> FALSE], [price |-> 10000, delivered |-> TRUE]}

DaysOld == {1}

NextStore ==
    \/ \E rd \in {r \in StoreCreates : r.currency = "EUR"} : CreateTrackingRequest(rd)
    \/ \E id \in Ids, ud \in StoreUpdates : UpdateTrackingRequest(id, ud)
    \/ \E obs \in [ActiveRequests(requests, utcnow) -> StoreObservation] :
          Len(price_history) < MaxChecked /\ CheckAllActiveRequests(obs)
    \/ Tick

SpecStore == Init /\ [][NextStore]_vars

\* Requests deactivated, deleted and cleaned up, with the rows that refer to
\* them.

Found == [price |-> 10000, delivered |-> TRUE]

NextRemoval ==
    \/ \E rd \in StoreCreates : CreateTrackingRequest(rd)
    \/ \E id \in Ids : UpdateTrackingRequest(id, Deactivate)
    \/ \E id \in Ids : DeleteTrackingRequest(id)
    \/ Len(price_history) < MaxChecked /\
          CheckAllActiveRequests([id \in ActiveRequests(requests, utcnow) |-> Found])
    \/ \E days_old \in DaysOld : CleanupOldRequests(days_old)
    \/ Tick

SpecRemoval == Init /\ [][NextRemoval]_vars

\* The tasks of tasks/ submitted for known and unknown requests and run by
\* the worker, while requests are created and deactivated and the days pass.
JobCreates == {rd \in RequestData : rd.price_threshold = 500 /\ rd.return_date = NULL}

NextJobs ==
    \/ \E rd \in JobCreates : CreateTrackingRequest(rd)
    \/ \E id \in Ids : UpdateTrackingRequest(id, Deactivate)
    \/ \E name \in TaskNames, request_id \in Ids : JobSubmit(name, request_id)
    \/ JobRun
    \/ Tick

SpecJobs == Init /\ [][NextJobs]_vars

\* The batch dispatch and the safe-execution helper on inputs of every kind.
BulkEntries ==
    {[type |-> t, keys |-> required_keys(t)] :
        t \in NotificationTypes \cup {"newsletter", "None"}}
    \cup {[type |-> "price_alert",
           keys |-> required_keys("price_alert") \ {"chat_id"}]}

RECURSIVE SeqsUpTo(_, _)
SeqsUpTo(S, n) ==
    IF n = 0 THEN {<<>>}
    ELSE LET shorter == SeqsUpTo(S, n - 1)
         IN  shorter \cup {Append(q, x) : q \in shorter, x \in S}

Funcs ==
    {[raised |-> "none", value |-> 7, message |-> ""],
     [raised |-> "ValueError", value |-> NULL, message |-> "bad value"],
     [raised |-> "KeyError", value |-> NULL, message |-> "'chat_id'"],
     [raised |-> "KeyboardInterrupt", value |-> NULL, message |-> ""]}

Durations == {0, 1}

NextBatch ==
    \/ \E notification_requests \in SeqsUpTo(BulkEntries, MaxBulk),
          broker_up \in BOOLEAN :
          SendBulkNotifications(notification_requests, broker_up)
    \/ \E func \in Funcs, duration \in Durations : SafeTaskExecution(func, duration)
    \/ Tick

SpecBatch == Init /\ [][NextBatch]_vars

\* One process in mock mode checking requests on two routes.
MockCreates ==
    {[origin_iata |-> route[1], destination_iata |-> route[2], departure_date |-> 2,
      return_date |-> NULL, telegram_chat_id |-> 1001, price_threshold |-> 100] :
        route \in MockRoutes}

NextMock ==
    \/ \E seed \in [MockRoutes -> HashValues] : InterpreterStart(seed)
    \/ \E rd \in MockCreates : CreateTrackingRequest(rd)
    \/ \E delivered \in BOOLEAN : MockCheck(delivered)
    \/ Tick

SpecMock == Init /\ [][NextMock]_vars

\* The cache on its own: values set, read, deleted and left to expire.
NextCache ==
    \/ \E key \in CacheKeyNames, value \in CacheValues :
          CacheManagerSet(key, value, CacheTtl)
    \/ \E key \in CacheKeyNames : CacheManagerGet(key)
    \/ \E key \in CacheKeyNames : CacheManagerDelete(key)
    \/ \E key \in CacheKeyNames : RedisWriteRaw(key)
    \/ TickClock

SpecCache == Init /\ [][NextCache]_vars

\* One request, checked again and again, and its history read page by page.
HistoryCreates ==
    {rd \in RequestData :
        rd.return_date = NULL /\ rd.departure_date = 2 /\ rd.price_threshold = 500}
Pages == 1..MaxPage
Limits == 1..MaxLimit
Undelivered(ids) == {obs \in Observations(ids) : \A id \in ids : ~obs[id].delivered}

NextHistory ==
    \/ \E rd \in HistoryCreates : CreateTrackingRequest(rd)
    \/ \E obs \in Undelivered(ActiveRequests(requests, utcnow)) :
          CheckAllActiveRequests(obs)
    \/ \E id \in Ids, page \in Pages, limit \in Limits :
          ApiGetPriceHistory(id, page, limit)

SpecHistory == Init /\ [][NextHistory]_vars

-----------------------------------------------------------------------------
(* Claims on the validation service (SpecIata, SpecRoute, SpecDates) *)

\* Exactly three upper-case letters A-Z.
WellFormedCode(code) ==
    /\ code.kind = "str"
    /\ Len(code.chars) = 3
    /\ \A i \in 1..3 : code.chars[i] \in UpperLetters

\* C14: validate_iata_code returns invalid for every input that is not
\* exactly three upper-case letters; a well-formed code is valid without a
\* warning when known, valid with a warning when unknown and allow_unknown,
\* and invalid when unknown in strict mode.  The code violates it: the
\* pattern's $ also matches before a final newline, so "JFK\n" is accepted.
C14_IataCode ==
    (val.fn = "validate_iata_code" /\ val.done) =>
        /\ ~WellFormedCode(val.code) => ~val.result.is_valid
        /\ (WellFormedCode(val.code) /\ val.code.chars \in known_iata_codes) =>
              (val.result.is_valid /\ val.result.warnings = <<>>)
        /\ (WellFormedCode(val.code) /\ val.code.chars \notin known_iata_codes) =>
              IF val.allow_unknown
              THEN val.result.is_valid /\ val.result.warnings # <<>>
              ELSE ~val.result.is_valid

\* C16: validate_route returns invalid whenever origin equals destination,
\* whatever the value: missing, not a string, malformed, unknown or known.
C16_SameRouteInvalid ==
    (val.fn = "validate_route" /\ val.done /\ val.origin = val.destination) =>
        ~val.result.is_valid

\* Two equal, well-formed and known codes: only the equality makes it invalid.
C16_Witness ==
    /\ val.fn = "validate_route" /\ val.done
    /\ val.origin = val.destination
    /\ WellFormedCode(val.origin) /\ val.origin.chars \in known_iata_codes
    /\ ~val.result.is_valid
    /\ Len(val.result.errors) = 1

\* C15: validate_date_range returns invalid for a departure today and valid
\* for a departure tomorrow; with a valid departure it returns invalid for a
\* return on the departure date and valid for a return one day later.  The
\* code violates it on 29 February: today.replace(year=today.year + 1)
\* raises ValueError and nothing is returned.
C15_DateBoundaries ==
    (val.fn = "validate_date_range" /\ val.done /\ val.departure_date # NULL) =>
        /\ val.departure_date = val.today =>
              (~val.result.raised /\ ~val.result.is_valid)
        /\ (val.departure_date = val.today + 1 /\ val.return_date = NULL) =>
              (~val.result.raised /\ val.result.is_valid)
        /\ (val.departure_date > val.today /\ val.return_date = val.departure_date) =>
              (~val.result.raised /\ ~val.result.is_valid)
        /\ (val.departure_date > val.today
                /\ val.return_date = val.departure_date + 1) =>
              (~val.result.raised /\ val.result.is_valid)

-----------------------------------------------------------------------------
(* Claims on the request lifecycle (specification Spec) *)

\* The rows as they were before the last create: a rejected create changes
\* nothing and an accepted one only inserts its row.
RowsBeforeCreate == DOMAIN requests \ last.changed

\* C3: no two active tracking requests ever share (origin, destination,
\* departure_date, return_date, chat id), whatever sequence of create, update,
\* delete and expiry sweep ran.  The code violates it: an update that sets
\* is_active back to true runs no duplicate check.
C3_NoTwoActiveShareKey ==
    \A i, j \in DOMAIN requests :
        (i # j /\ requests[i].is_active /\ requests[j].is_active)
            => ~SameKey(requests[i], requests[j])

\* C4: a create is rejected exactly when an identical request that is still
\* active exists; after that request was deactivated or deleted an identical
\* create is accepted, one-way or round trip.  The code violates it: the
\* unique index also counts inactive round-trip rows.
C4_RejectedIffActiveDuplicate ==
    last.op = "create" =>
        (last.result = "created" <=>
            ~\E id \in RowsBeforeCreate :
                SameKey(requests[id], last.data) /\ requests[id].is_active)

\* C8: an expiry sweep deactivates every active request with
\* expires_at <= now and no request whose expires_at is in the future, and
\* returns their number; a second sweep right after it deactivates nothing,
\* returns 0 and writes no notification.
C8_ExpirySweep ==
    last.op = "expire" =>
        /\ \A id \in DOMAIN requests :
              requests[id].expires_at <= utcnow => ~requests[id].is_active
        /\ \A id \in last.changed :
              requests[id].expires_at <= utcnow /\ ~requests[id].is_active
        /\ last.count = Cardinality(last.changed)
        /\ last.repeat => (last.count = 0 /\ last.changed = {} /\ last.written = 0)

\* C8 witness: a second sweep in a row, after a sweep that expired and
\* notified a request while another request is still active and unexpired.
C8_Witness ==
    /\ last.op = "expire" /\ last.repeat
    /\ Len(notification_log) > 0
    /\ \E id \in DOMAIN requests : ~requests[id].is_active /\ requests[id].expires_at <= utcnow
    /\ \E id \in DOMAIN requests : requests[id].is_active /\ requests[id].expires_at > utcnow

-----------------------------------------------------------------------------
(* Claims on price monitoring (specification SpecMonitor) *)

\* The price_history rows of one request, oldest first.
HistoryOf(id) == SelectSeq(price_history, LAMBDA h : h.tracking_request_id = id)

\* The notification_log rows the last call wrote for one request.
WrittenFor(id) ==
    SelectSeq(SubSeq(notification_log, Len(notification_log) - last.written + 1,
                     Len(notification_log)),
              LAMBDA row : row.tracking_request_id = id)

\* |new - old| / old * 100 >= threshold, with old # new (cents, and
\* hundredths of a percent).
SignificantChange(old, new, threshold) ==
    old # new /\ Abs(new - old) * 10000 >= threshold * old

\* The requests for which the last cycle observed a price.
Observed ==
    IF last.op = "check_all"
    THEN {id \in DOMAIN last.obs : last.obs[id].price # NULL}
    ELSE {}

\* C1: baseline_price is the first price observed for the request and no
\* later observation changes it; current_price is the price observed last.
C1_BaselineOnce ==
    /\ \A id \in DOMAIN requests :
          LET h == HistoryOf(id) IN
          IF h = <<>>
          THEN requests[id].baseline_price = NULL /\ requests[id].current_price = NULL
          ELSE /\ requests[id].baseline_price = h[1].price
               /\ requests[id].current_price = h[Len(h)].price
    /\ \A id \in Observed :
          /\ requests[id].current_price = last.obs[id].price
          /\ last.pre[id].baseline_price # NULL =>
                requests[id].baseline_price = last.pre[id].baseline_price

\* C1 witness: a request observed at least twice, last with a price that
\* differs from its baseline.
C1_Witness ==
    \E id \in Observed :
        /\ Len(HistoryOf(id)) >= 2
        /\ last.pre[id].baseline_price # NULL
        /\ last.obs[id].price # last.pre[id].baseline_price

\* C5: an observation on a request without baseline sets baseline_price and
\* current_price to the price and writes exactly one tracking_started row for
\* the request, sent when the delivery succeeded and failed when it did not.
C5_TrackingStarted ==
    \A id \in Observed :
        last.pre[id].baseline_price = NULL =>
            /\ requests[id].baseline_price = last.obs[id].price
            /\ requests[id].current_price = last.obs[id].price
            /\ WrittenFor(id) =
                 <<LogRow(id, "tracking_started",
                          IF last.obs[id].delivered THEN "sent" ELSE "failed",
                          NULL, NULL)>>
            /\ Len(SelectSeq(notification_log,
                     LAMBDA row : /\ row.tracking_request_id = id
                                  /\ row.notification_type = "tracking_started")) = 1

\* C5 witness: a first observation whose notification could not be delivered.
C5_Witness ==
    \E id \in Observed :
        last.pre[id].baseline_price = NULL /\ ~last.obs[id].delivered

\* C6: a price whose change from the prior current_price reaches the
\* request's threshold writes exactly one price_change row, with old_price
\* the prior current_price and new_price the observed price, and becomes the
\* current_price.
C6_PriceChangeLogged ==
    \A id \in Observed :
        (/\ last.pre[id].baseline_price # NULL
         /\ SignificantChange(last.pre[id].current_price, last.obs[id].price,
                              last.pre[id].price_threshold)) =>
            /\ requests[id].current_price = last.obs[id].price
            /\ WrittenFor(id) =
                 <<LogRow(id, "price_change",
                          IF last.obs[id].delivered THEN "sent" ELSE "failed",
                          last.pre[id].current_price, last.obs[id].price)>>

\* C6 witness: a significant change from a current price that is no longer
\* the baseline.
C6_Witness ==
    \E id \in Observed :
        /\ last.pre[id].baseline_price # NULL
        /\ last.pre[id].current_price # last.pre[id].baseline_price
        /\ SignificantChange(last.pre[id].current_price, last.obs[id].price,
                             last.pre[id].price_threshold)
        /\ Len(WrittenFor(id)) = 1

\* C7: a price whose change from the prior current_price is below the
\* request's threshold becomes the current_price and writes no
\* notification_log row.
C7_SilentUpdate ==
    \A id \in Observed :
        (/\ last.pre[id].baseline_price # NULL
         /\ ~SignificantChange(last.pre[id].current_price, last.obs[id].price,
                               last.pre[id].price_threshold)) =>
            /\ requests[id].current_price = last.obs[id].price
            /\ WrittenFor(id) = <<>>

\* C7 witness: a changed price below the threshold (4.99% against 5%).
C7_Witness ==
    \E id \in Observed :
        /\ last.pre[id].baseline_price # NULL
        /\ last.pre[id].current_price # last.obs[id].price
        /\ ~SignificantChange(last.pre[id].current_price, last.obs[id].price,
                              last.pre[id].price_threshold)
        /\ requests[id].current_price = last.obs[id].price

-----------------------------------------------------------------------------
(* Claim on the change-detection rule (specification SpecDetect) *)

\* C2: _detect_price_change(old, new, threshold) is true exactly when
\* old # new and |new - old| / old * 100 >= threshold; at threshold 5.0 and
\* old 100.00, new 104.99 is not significant, new 105.00 and new 95.00 are;
\* equal prices are never significant.
C2_DetectRule ==
    detect.result # "none" =>
        /\ detect.result = "significant" <=>
              SignificantChange(detect.old, detect.new, detect.threshold)
        /\ (detect.threshold = 500 /\ detect.old = 10000 /\ detect.new = 10499)
              => detect.result = "not_significant"
        /\ (detect.threshold = 500 /\ detect.old = 10000 /\ detect.new \in {10500, 9500})
              => detect.result = "significant"
        /\ detect.old = detect.new => detect.result = "not_significant"

\* C2 witness: the boundary case, exactly 5% at threshold 5.0.
C2_Witness ==
    /\ detect.result = "significant"
    /\ detect.threshold = 500 /\ detect.old = 10000 /\ detect.new = 10500

-----------------------------------------------------------------------------
(* Claims about the sliding-window check (SpecRate) *)

\* The accepted requests of the client of the last check made before that
\* check, and those of them still inside the window when it was made.
AcceptedBefore ==
    LET all == accepted[rl.client_id]
    IN IF rl.outcome = "ok" THEN SubSeq(all, 1, Len(all) - 1) ELSE all

InWindowBefore ==
    SelectSeq(AcceptedBefore, LAMBDA t : rl.at - t < CheckWindow)

\* C9: for one client and one endpoint, a check made when exactly `limit`
\* accepted requests lie inside the window is rejected with
\* retry_after = max(1, window - (now - oldest in-window request)), which is
\* at least 1; never more than `limit` accepted requests lie inside one
\* window; and a check made when every accepted request is older than the
\* window is accepted and leaves a stored count of 1.
C9_SlidingWindow ==
    rl.outcome # "none" =>
        /\ Len(InWindowBefore) <= CheckLimit
        /\ Len(InWindowBefore) = CheckLimit =>
              /\ rl.outcome = "exceeded"
              /\ rl.retry_after =
                    Max(1, CheckWindow - (rl.at - SeqMin(InWindowBefore)))
              /\ rl.retry_after >= 1
        /\ InWindowBefore = <<>> =>
              /\ rl.outcome = "ok"
              /\ cache[rate_limit_key(rl.client_id, CheckEndpoint)].count = 1

\* A client whose earlier requests slid out of the window was accepted
\* again, filled the new window, and is now rejected with more than a
\* second to wait.
C9_Witness ==
    /\ rl.outcome = "exceeded"
    /\ rl.retry_after > 1
    /\ Len(InWindowBefore) = CheckLimit
    /\ Len(AcceptedBefore) > CheckLimit

-----------------------------------------------------------------------------
(* Claims about the middleware (SpecDispatch) *)

\* The paths the limiter is meant to leave alone: health, docs and static.
ExemptPath(path) ==
    \E prefix \in {Path(<<"health">>), Path(<<"api", "v1", "health">>),
                   Path(<<"docs">>), Path(<<"redoc">>), Path(<<"openapi.json">>),
                   Path(<<"static">>)} :
        StartsWith(path, prefix)

\* C10: for one client inside 60 seconds, no more than 60 GET
\* /api/v1/flights/search, 20 POST /api/v1/tracking/requests and 100 GET
\* /api/v1/tracking/requests reach the application (the next one receives
\* 429), and only health, docs and static paths bypass the limiter.
C10_EndpointLimits ==
    /\ \A endpoint \in LimitedEndpoints :
          passed[endpoint] <= limit_config(endpoint).limit
    /\ response.status # 0 /\ ~response.limited =>
          ExemptPath(response.request[2])

-----------------------------------------------------------------------------
(* Claims on the API handlers (SpecApi, SpecHistory) *)

\* C11: POST /requests validates the payload before calling the service: a
\* failed validation is answered 422 and creates no request, a duplicate
\* reported by the service is answered 400.  The code violates it: the 422
\* raised inside the try block is caught by "except Exception" and answered
\* as 500.
C11_CreateStatus ==
    api.op = "create_tracking_request" =>
        /\ ~api.is_valid =>
              (api.status = 422 /\ api.service = "not_called" /\ api.created = {})
        /\ (api.is_valid /\ api.service = "duplicate") => api.status = 400

Min(a, b) == IF a <= b THEN a ELSE b

\* Twenty-five recorded prices of request 1, for the pages of ten.
Rows25 ==
    [i \in 1..25 |-> [tracking_request_id |-> 1, price |-> 10000 + i, currency |-> "USD"]]
Table1 == [id \in {1} |-> NewRow(NoData)]

\* C13: get_price_history(id, page, limit) of an existing request with N
\* recorded prices returns min(limit, max(0, N - (page-1)*limit)) items,
\* newest first, total_count = N and has_next = (N > page*limit); with N = 25
\* and limit = 10, page 2 has 10 items and a next page, page 3 has 5 items
\* and none; for an unknown id it returns absent.
C13_PriceHistoryPage ==
    /\ api.op = "get_price_history" =>
          LET N == Len(api.recorded)
              offset == (api.page - 1) * api.limit
              res == api.result
          IN IF ~api.exists
             THEN ~res.found
             ELSE /\ res.found
                  /\ Len(res.prices) = Min(api.limit, Max(0, N - offset))
                  /\ \A i \in 1..Len(res.prices) :
                        res.prices[i] = api.recorded[N - offset + 1 - i]
                  /\ res.total_count = N
                  /\ res.has_next = (N > api.page * api.limit)
    /\ LET page2 == get_price_history(Table1, Rows25, 1, 2, 10)
           page3 == get_price_history(Table1, Rows25, 1, 3, 10)
       IN /\ Len(page2.prices) = 10 /\ page2.has_next
          /\ Len(page3.prices) = 5 /\ ~page3.has_next
          /\ page2.prices[1].price = 10015 /\ page3.prices[5].price = 10001

\* The second page of a history of three prices read two at a time: one
\* item, the oldest, and no next page.
C13_Witness ==
    /\ api.op = "get_price_history"
    /\ api.exists
    /\ api.page = 2 /\ api.limit = 2
    /\ Len(api.recorded) = 3
    /\ Len(api.result.prices) = 1
    /\ api.result.prices[1] = api.recorded[1]
    /\ ~api.result.has_next

-----------------------------------------------------------------------------
(* Claims on the cache (SpecCache) *)

\* C12: a value stored by set with a TTL is returned unchanged by get before
\* the TTL expires; after the expiry or a delete get returns absent; a payload
\* that cannot be decoded makes get return absent and remove the key.  The
\* code violates the first part: a value JSON has no form for (a Decimal, a
\* tuple) comes back as a str or a list.
C12_CacheRoundTrip ==
    reply.op = "get" =>
        /\ (reply.entry.present /\ reply.entry.by_set) =>
              reply.result = reply.entry.value
        /\ ~reply.entry.present => reply.result = PyNoneValue
        /\ (reply.entry.present /\ ~reply.entry.by_set) =>
              (reply.result = PyNoneValue /\ reply.removed)

-----------------------------------------------------------------------------
(* Claims on concurrent operations *)

\* Two finished calls with the same key that both ran their duplicate check
\* before either of them inserted.
Interleaved(c1, c2) ==
    /\ c1 # c2
    /\ creating[c1].pc = "done" /\ creating[c2].pc = "done"
    /\ SameKey(creating[c1].data, creating[c2].data)
    /\ c2 \in creating[c1].overlapped

\* C17: of two concurrent create_tracking_request calls with the same key
\* that both run the duplicate check before either inserts, at most one
\* succeeds, and at most one active request with that key exists.  The code
\* violates it for a one-way request: the unique index treats the NULL
\* return_date as distinct and accepts both rows.
C17_ConcurrentCreate ==
    \A c1, c2 \in DOMAIN creating :
        Interleaved(c1, c2) =>
            /\ ~(creating[c1].result = "created" /\ creating[c2].result = "created")
            /\ Cardinality({id \in DOMAIN requests :
                    requests[id].is_active
                    /\ SameKey(requests[id], creating[c1].data)}) <= 1

\* The cycles that have finished and set the baseline of a request.
BaselineWriters(id) ==
    {cy \in DOMAIN cycles : cycles[cy].pc = "done" /\ id \in cycles[cy].set_baseline}

TrackingStarted(id) ==
    {i \in 1..Len(notification_log) :
        /\ notification_log[i].tracking_request_id = id
        /\ notification_log[i].notification_type = "tracking_started"}

AcceptedInWindow(client_id, s) ==
    {i \in 1..Len(accepted[client_id]) :
        accepted[client_id][i] <= s /\ accepted[client_id][i] > s - CheckWindow}

\* The requests of a client the cache counts inside the window that ends now.
CountedInWindow(client_id) ==
    LET got == cache_get(cache, rate_limit_key(client_id, CheckEndpoint), clock)
    IN SelectSeq(got.requests, LAMBDA req_time : req_time > clock - CheckWindow)

Settled == \A task \in DOMAIN inflight : inflight[task].pc = "done"

\* C19: when requests of one client pass the limiter concurrently, every
\* accepted request is counted and the requests accepted inside any window
\* never exceed the limit.  The code violates it: two requests that both read
\* the cache before either writes are both accepted on the same count, and
\* the second write replaces the first.
C19_ConcurrentLimit ==
    \A client_id \in RaceClients :
        /\ \A s \in 0..MaxClock :
              Cardinality(AcceptedInWindow(client_id, s)) <= CheckLimit
        /\ Settled =>
              Len(CountedInWindow(client_id)) =
                  Cardinality(AcceptedInWindow(client_id, clock))

-----------------------------------------------------------------------------
(* Claims on the notifications of the expiry sweep (Spec) *)

\* The notification_log rows the last call wrote.
WrittenLast ==
    SubSeq(notification_log, Len(notification_log) - last.written + 1,
           Len(notification_log))

\* The expiry notifications logged for one request.
ExpiryNotices(id) ==
    {i \in 1..Len(notification_log) :
        /\ notification_log[i].tracking_request_id = id
        /\ notification_log[i].notification_type = "tracking_stopped"}

\* C20: an expiry sweep notifies exactly the requests it deactivated in that
\* run whose expires_at lies within the last 24 hours; a request that was
\* already inactive before the run receives none; over any sequence of sweeps
\* a request receives at most one.  The code violates it: the sweep selects
\* its recipients by is_active = false and expires_at, so a request that was
\* deactivated before the run is notified with the others.
C20_ExpiryNotifications ==
    /\ last.op = "expire" =>
          \A i \in 1..Len(WrittenLast) :
              WrittenLast[i].tracking_request_id \in last.changed
    /\ \A id \in DOMAIN requests : Cardinality(ExpiryNotices(id)) <= 1

-----------------------------------------------------------------------------
(* Claims on the notification log (Spec) *)

\* The requests the last expiry sweep tried to notify.
ExpiryAttempts ==
    IF last.count > 0 THEN RecentlyExpired(requests, utcnow) ELSE {}

\* C21: every notification attempt of the monitoring service, whether the
\* delivery succeeds or raises, leaves one NotificationLog row with the
\* delivery status.  The code violates it for the tracking-expired (and the
\* error) notification: when the delivery raises, the except branch writes
\* to the application log only.
C21_EveryAttemptLogged ==
    last.op = "expire" => last.written = Cardinality(ExpiryAttempts)

-----------------------------------------------------------------------------
(* Claims on the counters of a price-check cycle (SpecCycle) *)

\* The rows the last cycle wrote to notification_log.
CycleRows ==
    SubSeq(notification_log, Len(notification_log) - last.written + 1,
           Len(notification_log))

\* The requests for which the last cycle detected a significant change.
ChangesDetected ==
    {id \in last.result.reached \ last.result.raising :
        /\ last.obs[id].price # NULL
        /\ last.pre[id].baseline_price # NULL
        /\ SignificantChange(last.pre[id].current_price, last.obs[id].price,
                             last.pre[id].price_threshold)}

\* C22: the counters check_all_active_requests returns hold in price_changes
\* the number of requests with a significant change detected in the cycle and
\* in notifications_sent the number of notifications delivered in the cycle.
\* The code violates it: both counters are set to 0 and never incremented.
C22_CycleCounters ==
    last.op = "check_all" =>
        /\ last.result.stats.price_changes = Cardinality(ChangesDetected)
        /\ last.result.stats.notifications_sent =
              Len(SelectSeq(CycleRows, LAMBDA row : row.status = "sent"))

-----------------------------------------------------------------------------
(* The flight service's token *)

\* C24: once authenticate has obtained a token, a later authenticate
\* (alone or inside a live search) made before the stored expiry returns
\* the cached token without contacting the token endpoint and without
\* raising, and one made from the stored expiry on requests a new token.
C24_CachedToken ==
    flight.call.op \in {"authenticate", "search_flights"}
        /\ flight.call.before.access_token # "" =>
        IF flight.call.at < flight.call.before.token_expires_at.value
        THEN flight.call.auth = "cached" /\ ~flight.call.contacted
        ELSE flight.call.contacted

\* C25: in live mode a transport failure of the token request or of the
\* offer search makes search_flights return the mock offers.
C25_TransportFallsBack ==
    flight.call.op = "search_flights" /\ ~flight.call.before.use_mock_data
        /\ \/ flight.call.contacted /\ flight.call.token_reply = "HTTPError"
           \/ flight.call.searched /\ flight.call.search_reply = "HTTPError"
        => flight.call.outcome = "mock"

-----------------------------------------------------------------------------
(* Retry strategies *)

Failed == celery_task.exc # NoError

\* The retry count the last run of the task was made with.
RetriesAtRun ==
    IF celery_task.raised = "Retry" THEN celery_task.retries - 1
    ELSE celery_task.retries

\* C26: under the notification strategy a body failing with a Telegram
\* API error or a network error qualifies for retry, and while fewer than
\* 3 retries were made it is retried with a countdown of 60*(n+1).
C26_NotificationRetried ==
    Failed /\ celery_task.strategy = "notification"
        /\ celery_task.exc.type \in {"TelegramAPIError", "ConnectError"} =>
        /\ should_retry_error(celery_task.exc, "notification")
        /\ RetriesAtRun < 3 /\ RetriesAtRun < celery_task.task_max_retries =>
              /\ celery_task.raised = "Retry"
              /\ celery_task.countdown = 60 * (RetriesAtRun + 1)

\* C27: the wrapper raises Retry only for an error that qualifies for the
\* strategy and with a retry count below the strategy's max_retries, and
\* then with the strategy's countdown for that count; otherwise it raises
\* the original exception; no task is retried more than max_retries times.
C27_RetryWithinBudget ==
    /\ celery_task.retries <= max_retries(celery_task.strategy)
    /\ Failed =>
        IF celery_task.raised = "Retry"
        THEN /\ should_retry_error(celery_task.exc, celery_task.strategy)
             /\ RetriesAtRun < max_retries(celery_task.strategy)
             /\ celery_task.countdown =
                    get_retry_countdown(celery_task.strategy, RetriesAtRun)
             /\ celery_task.state = "retry"
        ELSE celery_task.raised = "exc" /\ celery_task.state = "failed"

\* A task that failed on every attempt was retried max_retries times and
\* then given up with the exception of its body.
C27_Witness ==
    /\ celery_task.strategy = "api_call"
    /\ celery_task.retries = 5
    /\ celery_task.state = "failed"
    /\ celery_task.raised = "exc"
    /\ should_retry_error(celery_task.exc, "api_call")

-----------------------------------------------------------------------------
(* The fixed-window counter *)

\* C28: every rate-limit counter key that exists carries an expiry, also
\* when the key expired between a request's read and its increment.
C28_CountersExpire ==
    \A key \in DOMAIN store :
        redis_live(store, key, clock) => store[key].expires # NoExpiry

-----------------------------------------------------------------------------
(* The middleware over a failing cache *)

\* The requests of the checked client accepted inside the window that
\* ends with the last check.
AcceptedOfLate ==
    SelectSeq(accepted[rl.client_id], LAMBDA t : t > rl.at - CheckWindow)

\* C29: a rate-limit check that fails internally (cache unreachable, not
\* connected or raising) raises nothing, and the middleware forwards the
\* request and does not answer 429; the limit is reported as exceeded, and
\* 429 answered, only when it was found to be reached.
C29_FailOpen ==
    /\ response.status # 0 =>
          /\ response.cache_state # "up" =>
                response.forwarded /\ response.status # 429
          /\ response.status = 429 =>
                response.cache_state = "up" /\ ~response.forwarded
    /\ rl.outcome # "none" =>
          /\ rl.cache_state # "up" => rl.outcome = "ok"
          /\ rl.outcome = "exceeded" =>
                rl.cache_state = "up" /\ Len(AcceptedOfLate) >= CheckLimit

\* With the limit used up inside the window, a further check is made
\* while the cache fails, and the request is accepted.
C29_Witness ==
    /\ rl.cache_state # "up"
    /\ rl.outcome = "ok"
    /\ Len(AcceptedOfLate) > CheckLimit
    /\ response.cache_state # "up"
    /\ response.forwarded

-----------------------------------------------------------------------------
(* CacheManager under failure *)

\* C30: no method of CacheManager lets an exception out; called before
\* connect or while the server is down it returns its fallback (None,
\* False or 0) and the stored entries stay as they were.
C30_NeverPropagates ==
    called.method # "none" =>
        /\ called.propagated = ""
        /\ ~called.was_connected \/ ~called.up =>
              /\ called.returned = fallback(called.method)
              /\ called.unchanged

\* set is called while the server is down and entries are stored.
C30_Witness ==
    /\ called.method = "set"
    /\ called.was_connected
    /\ ~called.up
    /\ called.returned = PyBool(FALSE)
    /\ DOMAIN store # {}

-----------------------------------------------------------------------------
(* Timestamps, price history and removal *)

\* The rows of a child table that refer to one request.
RowsOf(rows, id) == SelectSeq(rows, LAMBDA row : row.tracking_request_id = id)

\* C31: when the flight lookup yields no price for a request, the check
\* leaves its baseline_price, current_price and updated_at as they were and
\* writes no price_history row and no notification_log row for it.
C31_NoPriceNoChange ==
    [][last'.op = "check_all" =>
          \A id \in DOMAIN last'.obs :
             last'.obs[id].price = NULL =>
                /\ requests'[id] = requests[id]
                /\ updated_at'[id] = updated_at[id]
                /\ RowsOf(price_history', id) = RowsOf(price_history, id)
                /\ RowsOf(notification_log', id) = RowsOf(notification_log, id)]_vars

\* C31 witness: a cycle on a later day found no price for a request that
\* already has its baseline.
C31_Witness ==
    /\ last.op = "check_all"
    /\ \E id \in DOMAIN last.obs :
          /\ last.obs[id].price = NULL
          /\ last.pre[id].baseline_price # NULL
          /\ updated_at[id] < utcnow
          /\ RowsOf(price_history, id) # <<>>

\* C32: a check that obtains a price appends exactly one price_history row
\* with that price and the request's currency; no check and no update
\* modifies or removes a row that is there; a request starts without rows.
C32_HistoryAppendOnly ==
    [][/\ last'.op = "check_all" =>
             \A id \in DOMAIN last'.obs :
                last'.obs[id].price # NULL =>
                   RowsOf(price_history', id) =
                      Append(RowsOf(price_history, id),
                             [tracking_request_id |-> id,
                              price |-> last'.obs[id].price,
                              currency |-> requests[id].currency])
       /\ last'.op \in {"check_all", "update"} =>
             /\ Len(price_history') >= Len(price_history)
             /\ \A i \in 1..Len(price_history) : price_history'[i] = price_history[i]
       /\ last'.op = "create" =>
             \A id \in last'.changed : RowsOf(price_history', id) = <<>>]_vars

\* C32 witness: the second price of a request kept in euros is recorded.
C32_Witness ==
    /\ last.op = "check_all"
    /\ \E id \in DOMAIN last.obs :
          /\ last.obs[id].price # NULL
          /\ requests[id].currency = "EUR"
          /\ Len(RowsOf(price_history, id)) = 2

\* The columns update_tracking_request never writes.
FixedColumns ==
    {"origin_iata", "destination_iata", "departure_date", "return_date",
     "telegram_chat_id", "baseline_price", "current_price", "currency",
     "expires_at"}

\* C33: update_tracking_request writes price_threshold and is_active when
\* they are supplied and then refreshes updated_at; it leaves the route, the
\* dates, the chat id, both prices and expires_at alone; an empty payload
\* changes nothing; an unknown id gives "not found" and changes nothing.
C33_UpdateFrame ==
    [][last'.op = "update" =>
          LET id == last'.data.id
              ud == last'.data.ud
          IN
          /\ price_history' = price_history
          /\ notification_log' = notification_log
          /\ DOMAIN requests' = DOMAIN requests
          /\ \A i \in DOMAIN requests \ {id} :
                requests'[i] = requests[i] /\ updated_at'[i] = updated_at[i]
          /\ IF id \notin DOMAIN requests
             THEN last'.result = "not_found"
             ELSE /\ last'.result = "updated"
                  /\ requests'[id].price_threshold =
                        IF ud.price_threshold # NULL THEN ud.price_threshold
                        ELSE requests[id].price_threshold
                  /\ requests'[id].is_active =
                        IF ud.is_active # <<>> THEN ud.is_active[1]
                        ELSE requests[id].is_active
                  /\ \A f \in FixedColumns : requests'[id][f] = requests[id][f]
                  /\ updated_at'[id] =
                        IF ud.price_threshold # NULL \/ ud.is_active # <<>>
                        THEN utcnow ELSE updated_at[id]]_vars

\* C33 witness: the threshold of a request with a baseline was changed on a
\* later day.
C33_Witness ==
    /\ last.op = "update" /\ last.result = "updated"
    /\ last.data.ud = [price_threshold |-> 100, is_active |-> <<>>]
    /\ \E id \in last.changed :
          /\ requests[id].price_threshold = 100
          /\ requests[id].baseline_price # NULL
          /\ updated_at[id] = utcnow /\ utcnow > 0

\* C34: delete_tracking_request of an existing id removes the request with
\* every price_history and notification_log row that refers to it, leaves
\* the other requests and their rows alone and returns true; for an unknown
\* id, as in a second delete, it returns false and changes nothing.
C34_DeleteCascades ==
    [][\A id \in Ids :
          (last'.op = "delete" /\ DeleteTrackingRequest(id)) =>
             /\ DOMAIN requests' = DOMAIN requests \ {id}
             /\ \A i \in DOMAIN requests' :
                   requests'[i] = requests[i] /\ updated_at'[i] = updated_at[i]
             /\ last'.result = IF id \in DOMAIN requests THEN "deleted" ELSE "not_found"
             /\ RowsOf(price_history', id) = <<>>
             /\ RowsOf(notification_log', id) = <<>>
             /\ \A i \in Ids \ {id} :
                   /\ RowsOf(price_history', i) = RowsOf(price_history, i)
                   /\ RowsOf(notification_log', i) = RowsOf(notification_log, i)
             /\ id \notin DOMAIN requests =>
                   price_history' = price_history /\ notification_log' = notification_log]_vars

\* C34 witness: a request went with its rows while the rows of another
\* request stay.
C34_Witness ==
    /\ last.op = "delete" /\ last.result = "deleted"
    /\ last.count >= 2
    /\ price_history # <<>> /\ notification_log # <<>>

\* C35: cleanup_old_requests(days_old) deletes exactly the inactive requests
\* whose updated_at is more than days_old days back and returns their
\* number; an active request and an inactive one updated later stay.
C35_CleanupExact ==
    [][\A days_old \in DaysOld :
          (last'.op = "cleanup" /\ CleanupOldRequests(days_old)) =>
             /\ DOMAIN requests \ DOMAIN requests' =
                   {id \in DOMAIN requests :
                       ~requests[id].is_active /\ updated_at[id] < utcnow - days_old}
             /\ DOMAIN requests' \subseteq DOMAIN requests
             /\ last'.result = Cardinality(DOMAIN requests \ DOMAIN requests')
             /\ \A i \in DOMAIN requests' :
                   requests'[i] = requests[i] /\ updated_at'[i] = updated_at[i]]_vars

\* C35 witness: one old inactive request was deleted while an inactive
\* request updated at the cutoff stays.
C35_Witness ==
    /\ last.op = "cleanup" /\ last.result = 1
    /\ \E id \in DOMAIN requests :
          ~requests[id].is_active /\ updated_at[id] = utcnow - last.data.days_old

-----------------------------------------------------------------------------
(* Claims on the tasks (SpecJobs) *)

\* The status the guards of check_prices_for_request are to return.
GuardStatus ==
    [unknown |-> "not_found", inactive |-> "inactive", expired |-> "expired"]

\* C36: an attempt of the per-request price check that meets an unknown id,
\* an inactive request or an active request past expires_at returns the
\* status not_found, inactive or expired (the expired request deactivated)
\* and no retry is scheduled.  The code violates it: the session is bound to
\* the generator get_db() returns, its first statement raises, and the
\* except branch schedules a retry.
C36_GuardsBeforeLookup ==
    (job.name = "check_prices_for_request"
        /\ job.met \in {"unknown", "inactive", "expired"}) =>
        /\ job.state = "succeeded"
        /\ job.result.status = GuardStatus[job.met]
        /\ job.countdowns = <<>>

\* The retries each task is to get, in seconds.
Schedule(name) ==
    CASE name = "check_prices_for_request" -> <<60, 120, 240>>
      [] name = "send_price_alert_notification" -> <<30, 60, 120>>
      [] name = "send_tracking_started_notification" -> <<60, 120>>
      [] name = "send_tracking_stopped_notification" -> <<60, 120>>
      [] name = "send_expiry_warning_notification" -> <<60>>

\* C37: a task that fails on every attempt is retried after the countdowns
\* of its schedule, in order and no further, and is given up only when the
\* schedule is used up.
C37_RetrySchedule ==
    job.name \in TaskNames =>
        /\ job.state # "succeeded"
        /\ job.retries = Len(job.countdowns)
        /\ Len(job.countdowns) <= Len(Schedule(job.name))
        /\ job.countdowns = SubSeq(Schedule(job.name), 1, Len(job.countdowns))
        /\ job.state = "failed" => job.countdowns = Schedule(job.name)
        /\ job.state = "retry" => job.countdowns # <<>>

\* C37 witness: a price-alert notification failed four times and was given
\* up after its three retries.
C37_Witness ==
    /\ job.name = "send_price_alert_notification"
    /\ job.state = "failed"
    /\ job.countdowns = <<30, 60, 120>>

\* C38: send_bulk_notifications returns after going through the whole list:
\* total is the length of the list, successful + failed = total, errors
\* holds one message per failed entry, and every entry with an unknown or a
\* missing type is among the failed.
C38_BulkCounts ==
    job.name = "send_bulk_notifications" =>
        /\ job.state = "succeeded"
        /\ job.result.total = Len(job.args)
        /\ job.result.successful + job.result.failed = job.result.total
        /\ Len(job.result.errors) = job.result.failed
        /\ job.result.failed >=
               Cardinality({i \in 1..Len(job.args) :
                               job.args[i].type \notin NotificationTypes})
        /\ (\A i \in 1..Len(job.args) : job.args[i].type \notin NotificationTypes) =>
               job.result.successful = 0

\* C38 witness: a list with a dispatched entry and an entry of unknown or
\* missing type came back with one success and one failure.
C38_Witness ==
    /\ job.name = "send_bulk_notifications"
    /\ Len(job.args) = 2
    /\ \E i \in 1..2 : job.args[i].type \notin NotificationTypes
    /\ job.result.successful = 1
    /\ job.result.failed = 1

\* C39: safe_task_execution returns, when the operation returns and when it
\* raises an Exception, an envelope with status, execution_time and
\* timestamp, plus the result on success or the error on failure.  The
\* code violates it: the envelope of a failure has no execution_time.
C39_UniformEnvelope ==
    (job.name = "safe_task_execution"
        /\ job.args[1].raised \in ExceptionClasses \cup {"none"}) =>
        /\ job.state = "succeeded"
        /\ {"status", "execution_time", "timestamp"} \subseteq DOMAIN job.result
        /\ job.result.status =
               (IF job.args[1].raised = "none" THEN "success" ELSE "error")
        /\ job.args[1].raised = "none" => "result" \in DOMAIN job.result
        /\ job.args[1].raised # "none" => "error_message" \in DOMAIN job.result

\* C40: in mock mode every check of a request within a process finds the
\* same price, so no check after the first sends or logs a price-change
\* notification.
C40_MockPriceConstant ==
    /\ \A i, j \in 1..Len(price_history) :
           price_history[i].tracking_request_id = price_history[j].tracking_request_id
               => price_history[i].price = price_history[j].price
    /\ \A i \in 1..Len(notification_log) :
           notification_log[i].notification_type # "price_change"
    /\ \A id \in DOMAIN requests :
           requests[id].baseline_price # NULL =>
               requests[id].current_price = requests[id].baseline_price

\* C40 witness: a request checked on two different days, its second check
\* after the baseline was set.
C40_Witness ==
    /\ last.op = "check_all"
    /\ utcnow > 0
    /\ \E i, j \in 1..Len(price_history) :
           /\ i < j
           /\ price_history[i].tracking_request_id = price_history[j].tracking_request_id
    /\ \E id \in DOMAIN last.obs : last.pre[id].baseline_price # NULL

====
